---------------------------- MODULE Spec2Model ----------------------------
(***************************************************************************)
(* Verification model of the Compotastic simulation core:                  *)
(*   - the grid value types (GridLocation, Action, Surroundings,           *)
(*     NodeState) of backend/simulation/logic/__init__.py,                 *)
(*   - GridWorldEnvironment (the transition function step),                *)
(*   - MeshSimulation of backend/simulation/runtime.py (the tick loop).    *)
(*                                                                         *)
(* Three specifications share the variables:                               *)
(*   SpecPure  the pure value-type functions applied to drawn inputs,      *)
(*   SpecEnv   a GridWorldEnvironment driven through its public step,      *)
(*   Spec      a MeshSimulation driven through step, set_models and        *)
(*             add_reward_tile.                                            *)
(***************************************************************************)
EXTENDS Integers, Sequences, FiniteSets, TLC

VARIABLES
    width,        \* GridWorldEnvironment.width  / SimulationGrid.width
    height,       \* GridWorldEnvironment.height / SimulationGrid.height
    rewards,      \* GridWorldEnvironment._rewards : (x, y) -> int
    node_states,  \* GridWorldEnvironment._node_states : identifier -> node
    cats,         \* MeshSimulation._cats
    dogs,         \* MeshSimulation._dogs
    reward_tiles, \* MeshSimulation._reward_tiles
    alerts,       \* MeshSimulation._alerts
    models,       \* MeshSimulation._models
    tick,         \* MeshSimulation._tick
    rng,          \* MeshSimulation._rng: the draws the injected generator can make
    call,         \* the last call made on the public interface, with its arguments
    ret,          \* what that call returned or raised
    turns,        \* the agent turns of the last MeshSimulation.step, in order
    patched,      \* the value patch.object has put in place of the environment's
                  \* surroundings_for, in a sequence; empty while it is not patched
    agent,        \* a QLearningAgent trained on its own: its rates and its _q_table
    manager       \* a BackgroundTaskManager: its _tasks, and the coroutines running on it

vars == <<width, height, rewards, node_states, cats, dogs, reward_tiles,
          alerts, models, tick, rng, call, ret, turns, patched,
          agent, manager>>

(***************************************************************************)
(* Bounds of the model.                                                    *)
(***************************************************************************)
EnvWidth == 5
EnvHeight == 5

(***************************************************************************)
(* Action (IntEnum) and the movement vectors.                              *)
(***************************************************************************)
MOVE_FORWARD == 0
MOVE_BACKWARD == 1
MOVE_LEFT == 2
MOVE_RIGHT == 3
DO_WORK == 4
STOP == 5
CALL_FOR_HELP == 6

Action == {MOVE_FORWARD, MOVE_BACKWARD, MOVE_LEFT, MOVE_RIGHT, DO_WORK, STOP,
           CALL_FOR_HELP}

\* len(Action)
NumActions == Cardinality(Action)

ACTION_TO_VECTOR ==
    (MOVE_FORWARD :> <<0, -1>>) @@ (MOVE_BACKWARD :> <<0, 1>>)
        @@ (MOVE_LEFT :> <<-1, 0>>) @@ (MOVE_RIGHT :> <<1, 0>>)

(***************************************************************************)
(* GridLocation.                                                           *)
(***************************************************************************)
GridLocation(x, y) == [x |-> x, y |-> y]

translated(location, dx, dy) == GridLocation(location.x + dx, location.y + dy)

(***************************************************************************)
(* Integer helpers: Python's << and | on non-negative integers.            *)
(***************************************************************************)
ShiftLeft(v, n) == v * 2^n

RECURSIVE BitOr(_, _)
BitOr(a, b) ==
    IF a = 0 THEN b
    ELSE IF b = 0 THEN a
    ELSE (IF a % 2 = 1 \/ b % 2 = 1 THEN 1 ELSE 0) + 2 * BitOr(a \div 2, b \div 2)

(***************************************************************************)
(* Surroundings.                                                           *)
(***************************************************************************)
Surroundings(f, b, l, r, w, s, h) ==
    [can_move_forward |-> f, can_move_backward |-> b, can_move_left |-> l,
     can_move_right |-> r, can_do_work |-> w, can_stop |-> s,
     can_call_for_help |-> h]

\* The flags tuple of action_mask, in field order.
SurroundingsFlags(s) ==
    <<s.can_move_forward, s.can_move_backward, s.can_move_left,
      s.can_move_right, s.can_do_work, s.can_stop, s.can_call_for_help>>

\* for index, is_allowed in enumerate(flags): if is_allowed: mask |= 1 << index
RECURSIVE MaskLoop(_, _, _)
MaskLoop(flags, index, mask) ==
    IF index >= Len(flags) THEN mask
    ELSE MaskLoop(flags, index + 1,
                  IF flags[index + 1] THEN BitOr(mask, ShiftLeft(1, index))
                  ELSE mask)

AllSurroundings ==
    {Surroundings(f, b, l, r, w, s, h) :
        f \in BOOLEAN, b \in BOOLEAN, l \in BOOLEAN, r \in BOOLEAN,
        w \in BOOLEAN, s \in BOOLEAN, h \in BOOLEAN}

\* action_mask of every Surroundings value, computed once by the loop.
ActionMaskOf == [s \in AllSurroundings |-> MaskLoop(SurroundingsFlags(s), 0, 0)]

action_mask(s) == ActionMaskOf[s]

\* Mutant of available_actions: STOP appended before DO_WORK.
available_actions_stop_first(s) ==
    LET a0 == IF s.can_move_forward THEN <<MOVE_FORWARD>> ELSE <<>>
        a1 == IF s.can_move_backward THEN Append(a0, MOVE_BACKWARD) ELSE a0
        a2 == IF s.can_move_left THEN Append(a1, MOVE_LEFT) ELSE a1
        a3 == IF s.can_move_right THEN Append(a2, MOVE_RIGHT) ELSE a2
        a4 == IF s.can_stop THEN Append(a3, STOP) ELSE a3
        a5 == IF s.can_do_work THEN Append(a4, DO_WORK) ELSE a4
        a6 == IF s.can_call_for_help THEN Append(a5, CALL_FOR_HELP) ELSE a5
    IN  a6

available_actions(s) ==
    LET a0 == IF s.can_move_forward THEN <<MOVE_FORWARD>> ELSE <<>>
        a1 == IF s.can_move_backward THEN Append(a0, MOVE_BACKWARD) ELSE a0
        a2 == IF s.can_move_left THEN Append(a1, MOVE_LEFT) ELSE a1
        a3 == IF s.can_move_right THEN Append(a2, MOVE_RIGHT) ELSE a2
        a4 == IF s.can_do_work THEN Append(a3, DO_WORK) ELSE a3
        a5 == IF s.can_stop THEN Append(a4, STOP) ELSE a4
        a6 == IF s.can_call_for_help THEN Append(a5, CALL_FOR_HELP) ELSE a5
    IN  a6

(***************************************************************************)
(* NodeState.encode.  A raise is a record [raised |-> TRUE, error |-> ..]. *)
(***************************************************************************)
Raise(error) == [raised |-> TRUE, error |-> error]

Return(value) == [raised |-> FALSE, value |-> value]

\* Mutant of NodeState_encode: one bit too few kept for the mask.
NodeState_encode_narrow(location, surroundings, grid_width) ==
    IF grid_width <= 0 THEN Raise("ValueError")
    ELSE LET position_index == location.y * grid_width + location.x
             surroundings_mask == action_mask(surroundings)
         IN  Return(position_index * ShiftLeft(1, NumActions - 1)
                        + surroundings_mask)

\* Mutant of NodeState_encode: the coordinates exchanged in the position index.
NodeState_encode_swapped(location, surroundings, grid_width) ==
    IF grid_width <= 0 THEN Raise("ValueError")
    ELSE LET position_index == location.x * grid_width + location.y
             surroundings_mask == action_mask(surroundings)
         IN  Return(position_index * ShiftLeft(1, NumActions) + surroundings_mask)

NodeState_encode(location, surroundings, grid_width) ==
    IF grid_width <= 0 THEN Raise("ValueError")
    ELSE LET position_index == location.y * grid_width + location.x
             surroundings_mask == action_mask(surroundings)
         IN  Return(position_index * ShiftLeft(1, NumActions) + surroundings_mask)

(***************************************************************************)
(* GridWorldEnvironment: the geometry.                                     *)
(***************************************************************************)
within_bounds(location) ==
    /\ 0 <= location.x /\ location.x < width
    /\ 0 <= location.y /\ location.y < height

is_border(location) ==
    \/ location.x = 0
    \/ location.y = 0
    \/ location.x = width - 1
    \/ location.y = height - 1

is_passable(location) == within_bounds(location) /\ ~is_border(location)

\* surroundings_for raises ValueError outside the grid and on the border.
\* A patched surroundings_for returns the patch's value for every location.
surroundings_for_raises(location) ==
    /\ patched = <<>>
    /\ ~within_bounds(location) \/ is_border(location)

surroundings_for(location) ==
    IF patched # <<>> THEN patched[1]
    ELSE
    Surroundings(is_passable(translated(location, 0, -1)),
                 is_passable(translated(location, 0, 1)),
                 is_passable(translated(location, -1, 0)),
                 is_passable(translated(location, 1, 0)),
                 TRUE, TRUE, TRUE)

encode_state(location) ==
    IF surroundings_for_raises(location) THEN Raise("ValueError")
    ELSE NodeState_encode(location, surroundings_for(location), width)

\* self._rewards.get((location.x, location.y), 0)
reward_at(rw, location) ==
    IF <<location.x, location.y>> \in DOMAIN rw
    THEN rw[<<location.x, location.y>>] ELSE 0


(***************************************************************************)
(* MeshtasticNode.  battery_level is held in hundredths (75.0 is 7500),    *)
(* the resolution round(level, 2) keeps.                                   *)
(***************************************************************************)
MeshtasticNode(identifier, battery_level, efficiency, location) ==
    [identifier |-> identifier, battery_level |-> battery_level,
     compute_efficiency_flops_per_milliamp |-> efficiency,
     location |-> location]

with_location(node, location) == [node EXCEPT !.location = location]

\* dict[key] = value
Put(d, key, value) ==
    [k \in (DOMAIN d) \cup {key} |-> IF k = key THEN value ELSE d[k]]

EmptyDict == [k \in {} |-> 0]

(***************************************************************************)
(* GridWorldEnvironment.step(node, action) on the node table ns and the    *)
(* reward map rw.  The argument arg is [is_int, value]: a non-integer      *)
(* fails isinstance(action, int).  The result carries the node table after *)
(* the call (node_states), also when the call raises, and the messages     *)
(* handed to the logging callback (log).                                   *)
(***************************************************************************)
IntArg(v) == [is_int |-> TRUE, value |-> v]

NonIntArg == [is_int |-> FALSE, value |-> 0]

StepRaise(error, ns) ==
    [raised |-> TRUE, error |-> error, node_states |-> ns, log |-> <<>>]

StepReturn(state, node, reward, done, ns, log) ==
    [raised |-> FALSE, state |-> state, node |-> node, reward |-> reward,
     done |-> done, node_states |-> ns, log |-> log]

\* Mutant of Reconcile: the caller's copy replaces the recorded node.
Reconcile_caller_wins(ns, node) == node

\* Lines 305-320: the caller's copy reconciled against the recorded node.
Reconcile(ns, node) ==
    IF node.identifier \notin DOMAIN ns THEN node
    ELSE LET recorded == ns[node.identifier]
         IN  IF \/ node.battery_level # recorded.battery_level
                \/ node.compute_efficiency_flops_per_milliamp
                       # recorded.compute_efficiency_flops_per_milliamp
             THEN [recorded EXCEPT
                      !.battery_level = node.battery_level,
                      !.compute_efficiency_flops_per_milliamp =
                          node.compute_efficiency_flops_per_milliamp]
             ELSE recorded

\* Mutant of PenaltyOutcome: the illegal action costs nothing.
PenaltyOutcome_unpunished(ns1, active_node, message) ==
    StepReturn(encode_state(active_node.location).value, active_node, 0, FALSE,
               Put(ns1, active_node.identifier, active_node), <<message>>)

\* Lines 325-329 and 335-339: the penalised outcome of an illegal action.
PenaltyOutcome(ns1, active_node, message) ==
    StepReturn(encode_state(active_node.location).value, active_node, -1, FALSE,
               Put(ns1, active_node.identifier, active_node), <<message>>)

\* Mutant of MoveOutcome: the reward of the origin is returned.
MoveOutcome_origin_reward(ns1, rw, active_node, new_location) ==
    LET reward == reward_at(rw, active_node.location)
        updated_node == with_location(active_node, new_location)
    IN  StepReturn(encode_state(new_location).value, updated_node, reward,
                   FALSE, Put(ns1, active_node.identifier, updated_node), <<>>)

\* Lines 340-343: the node relocated, the destination's reward returned.
MoveOutcome(ns1, rw, active_node, new_location) ==
    LET reward == reward_at(rw, new_location)
        updated_node == with_location(active_node, new_location)
    IN  StepReturn(encode_state(new_location).value, updated_node, reward,
                   FALSE, Put(ns1, active_node.identifier, updated_node), <<>>)

\* Lines 345-348: DO_WORK returns the reward of the current location.
WorkOutcome(ns1, rw, active_node) ==
    StepReturn(encode_state(active_node.location).value, active_node,
               reward_at(rw, active_node.location), FALSE,
               Put(ns1, active_node.identifier, active_node), <<>>)

\* Mutant of StopOutcome: STOP does not end the episode.
StopOutcome_not_done(ns1, active_node) ==
    StepReturn(encode_state(active_node.location).value, active_node, 0, FALSE,
               Put(ns1, active_node.identifier, active_node), <<>>)

\* Lines 350-352: STOP is the terminal transition.
StopOutcome(ns1, active_node) ==
    StepReturn(encode_state(active_node.location).value, active_node, 0, TRUE,
               Put(ns1, active_node.identifier, active_node), <<>>)

\* Lines 354-359: CALL_FOR_HELP notifies through the logging callback.
HelpOutcome(ns1, active_node) ==
    StepReturn(encode_state(active_node.location).value, active_node, -1, FALSE,
               Put(ns1, active_node.identifier, active_node), <<"help">>)

\* Lines 361-362: any other code path.
OtherOutcome(ns1, active_node) ==
    StepReturn(encode_state(active_node.location).value, active_node, 0, FALSE,
               Put(ns1, active_node.identifier, active_node), <<>>)

\* action in available_actions (a list membership)
InList(x, list) == \E i \in 1..Len(list) : list[i] = x

\* Lines 322-362: the transition once the action is a member of Action and
\* the active node is recorded.
StepResolved(ns1, rw, active_node, action) ==
    LET here == active_node.location
        available == available_actions(surroundings_for(here))
    IN  IF ~InList(action, available)
        THEN PenaltyOutcome(ns1, active_node, "unavailable")
        ELSE IF action \in DOMAIN ACTION_TO_VECTOR
        THEN LET v == ACTION_TO_VECTOR[action]
                 new_location == translated(here, v[1], v[2])
             IN  IF ~is_passable(new_location)
                 THEN PenaltyOutcome(ns1, active_node, "impassable")
                 ELSE MoveOutcome(ns1, rw, active_node, new_location)
        ELSE IF action = DO_WORK THEN WorkOutcome(ns1, rw, active_node)
        ELSE IF action = STOP THEN StopOutcome(ns1, active_node)
        ELSE IF action = CALL_FOR_HELP THEN HelpOutcome(ns1, active_node)
        ELSE OtherOutcome(ns1, active_node)

Env_step(ns, rw, node, arg) ==
    IF ~arg.is_int THEN StepRaise("TypeError", ns)
    ELSE IF arg.value \notin Action THEN StepRaise("ValueError", ns)
    ELSE LET active_node == Reconcile(ns, node)
             ns1 == Put(ns, node.identifier, active_node)
         IN  IF surroundings_for_raises(active_node.location)
             THEN StepRaise("ValueError", ns1)
             ELSE StepResolved(ns1, rw, active_node, arg.value)


\* No BackgroundTaskManager has been made.
NoManager == [kind |-> "None"]

\* No QLearningAgent has been made.
NoAgent == [kind |-> "None"]

(***************************************************************************)
(* QLearningAgent as MeshSimulation reads it: the Q-table maps a state to  *)
(* its (action, value) entries in insertion order.                         *)
(***************************************************************************)
\* self._q_table.get(state, {}).get(action, 0.0)
get_q_value(model, state, action) ==
    IF state \notin DOMAIN model.q_table THEN 0
    ELSE LET entries == model.q_table[state]
         IN  IF \E i \in 1..Len(entries) : entries[i][1] = action
             THEN LET i == CHOOSE i \in 1..Len(entries) : entries[i][1] = action
                  IN  entries[i][2]
             ELSE 0

NoPolicy == -1

\* Mutant of policy: the action recorded first for the state, whatever its value.
policy_first_recorded(model, state) ==
    IF state \notin DOMAIN model.q_table \/ model.q_table[state] = <<>>
    THEN NoPolicy
    ELSE model.q_table[state][1][1]

\* max(state_actions, key=state_actions.get): the first entry of greatest value.
policy(model, state) ==
    IF state \notin DOMAIN model.q_table \/ model.q_table[state] = <<>>
    THEN NoPolicy
    ELSE LET entries == model.q_table[state]
             best == CHOOSE i \in 1..Len(entries) :
                        /\ \A j \in 1..Len(entries) : entries[j][2] <= entries[i][2]
                        /\ \A j \in 1..(i - 1) : entries[j][2] < entries[i][2]
         IN  entries[best][1]

(***************************************************************************)
(* QLearningAgent trained on its own.  A rate is held in units of          *)
(* 1/RateUnit and a Q-value in units of 1/QUnit; a learn multiplies two     *)
(* rates into a value, so MaxLearns updates of whole rewards stay whole     *)
(* numbers of 1/QUnit, as they stay exact in the floats of the code.        *)
(***************************************************************************)
MaxLearns == 2

RateUnit == 2

QUnit == RateUnit ^ (2 * MaxLearns)

\* QLearningAgent(learning_rate=..., discount_factor=...): the checks of the
\* rates and the empty table.
NewAgent(learning_rate, discount_factor) ==
    IF ~(0 < learning_rate /\ learning_rate <= RateUnit)
       \/ ~(0 <= discount_factor /\ discount_factor <= RateUnit)
    THEN [kind |-> "ValueError"]
    ELSE [kind |-> "QLearningAgent", q_table |-> EmptyDict,
          learning_rate |-> learning_rate, discount_factor |-> discount_factor]

\* _set_q_value: self._q_table.setdefault(state, {})[action] = float(value)
set_q_value(model, state, action, value) ==
    LET entries == IF state \in DOMAIN model.q_table THEN model.q_table[state]
                   ELSE <<>>
        updated == IF \E i \in 1..Len(entries) : entries[i][1] = action
                   THEN [i \in 1..Len(entries) |->
                            IF entries[i][1] = action THEN <<action, value>>
                            ELSE entries[i]]
                   ELSE Append(entries, <<action, value>>)
    IN  [model EXCEPT !.q_table = Put(model.q_table, state, updated)]

\* next_available_actions or []
GivenActions(next_available_actions) ==
    IF next_available_actions.given THEN next_available_actions.actions ELSE <<>>

\* max(next_values) if next_values else 0.0
BestOf(next_values) ==
    IF next_values = <<>> THEN 0
    ELSE next_values[CHOOSE i \in 1..Len(next_values) :
                        \A j \in 1..Len(next_values) : next_values[j] <= next_values[i]]

RECURSIVE BestCandidate(_, _, _, _)
\* The loop of choose_action over available_actions[1:], from the index-th
\* candidate on, with the best action so far.
BestCandidate(model, state, candidates, acc) ==
    IF acc.index > Len(candidates) THEN acc.best_action
    ELSE LET candidate == candidates[acc.index]
             candidate_value == get_q_value(model, state, candidate)
         IN  BestCandidate(model, state, candidates,
                 IF candidate_value > acc.best_value
                 THEN [index |-> acc.index + 1, best_action |-> candidate,
                       best_value |-> candidate_value]
                 ELSE [acc EXCEPT !.index = @ + 1])

RECURSIVE LastBestCandidate(_, _, _, _)
\* The loop with >= in place of >.
LastBestCandidate(model, state, candidates, acc) ==
    IF acc.index > Len(candidates) THEN acc.best_action
    ELSE LET candidate == candidates[acc.index]
             candidate_value == get_q_value(model, state, candidate)
         IN  LastBestCandidate(model, state, candidates,
                 IF candidate_value >= acc.best_value
                 THEN [index |-> acc.index + 1, best_action |-> candidate,
                       best_value |-> candidate_value]
                 ELSE [acc EXCEPT !.index = @ + 1])

\* Mutant of choose_action: a later candidate of equal value replaces the best.
choose_action_last_tie(model, state, candidates, epsilon) ==
    IF candidates = <<>> THEN {[raised |-> TRUE, error |-> "ValueError"]}
    ELSE IF epsilon < 0 \/ epsilon > 100
    THEN {[raised |-> TRUE, error |-> "ValueError"]}
    ELSE {[raised |-> FALSE, value |-> candidates[i]]
             : i \in {j \in 1..Len(candidates) : epsilon > 0}}
         \cup {[raised |-> FALSE,
                value |-> LastBestCandidate(model, state, candidates,
                              [index |-> 2, best_action |-> candidates[1],
                               best_value |-> get_q_value(model, state,
                                                          candidates[1])])]
                 : greedy \in {TRUE} \ {epsilon = 100}}

\* QLearningAgent.choose_action, epsilon (in hundredths) being the rate given
\* or else the agent's own: the candidate random.choice can return when
\* random.random() < epsilon, and the best candidate when it is not.
choose_action(model, state, candidates, epsilon) ==
    IF candidates = <<>> THEN {[raised |-> TRUE, error |-> "ValueError"]}
    ELSE IF epsilon < 0 \/ epsilon > 100
    THEN {[raised |-> TRUE, error |-> "ValueError"]}
    ELSE {[raised |-> FALSE, value |-> candidates[i]]
             : i \in {j \in 1..Len(candidates) : epsilon > 0}}
         \cup {[raised |-> FALSE,
                value |-> BestCandidate(model, state, candidates,
                              [index |-> 2, best_action |-> candidates[1],
                               best_value |-> get_q_value(model, state,
                                                          candidates[1])])]
                 : greedy \in {TRUE} \ {epsilon = 100}}

\* Mutant of learn: the best next value is taken over every action the table
\* holds for next_state, whatever actions were given.
learn_over_known_actions(model, state, action, reward, next_state, next_available_actions) ==
    LET current_q == get_q_value(model, state, action)
        known == IF next_state \in DOMAIN model.q_table
                 THEN model.q_table[next_state] ELSE <<>>
        next_values == [i \in 1..Len(known) |-> known[i][2]]
        best_next_q == BestOf(next_values)
        updated_q == ((RateUnit - model.learning_rate) * current_q * RateUnit
                      + model.learning_rate
                        * (reward * QUnit * RateUnit
                           + model.discount_factor * best_next_q))
                     \div (RateUnit * RateUnit)
    IN  set_q_value(model, state, action, updated_q)

\* QLearningAgent.learn
learn(model, state, action, reward, next_state, next_available_actions) ==
    LET current_q == get_q_value(model, state, action)
        actions == GivenActions(next_available_actions)
        next_values == [i \in 1..Len(actions) |->
                           get_q_value(model, next_state, actions[i])]
        best_next_q == BestOf(next_values)
        updated_q == ((RateUnit - model.learning_rate) * current_q * RateUnit
                      + model.learning_rate
                        * (reward * QUnit * RateUnit
                           + model.discount_factor * best_next_q))
                     \div (RateUnit * RateUnit)
    IN  set_q_value(model, state, action, updated_q)

(***************************************************************************)
(* MeshSimulation: the helpers of a tick.  The state a tick changes as it  *)
(* goes is carried in a record st = [node_states, rewards, reward_tiles,   *)
(* alerts].                                                                *)
(***************************************************************************)
CatIdleChance == 25
DogIdleChance == 45
DogMoveInterval == 3

Coordinate(location) == <<location.x, location.y>>

\* GridWorldEnvironment.set_reward(location, value): overwrites the entry.
set_reward(rw, location, value) == Put(rw, Coordinate(location), value)

\* dict.pop(key, None)
Remove(d, key) == [k \in (DOMAIN d) \ {key} |-> d[k]]

\* _drain_battery without the clamp at zero.
drain_battery_unclamped(node, drain) ==
    [node EXCEPT !.battery_level = node.battery_level - drain]

\* _drain_battery with the generator's draw: max(level - drain, 0), rounded.
drain_battery(node, drain) ==
    [node EXCEPT !.battery_level =
        IF node.battery_level - drain > 0 THEN node.battery_level - drain ELSE 0]

\* _clear_alert
clear_alert(st, identifier) ==
    IF identifier \in DOMAIN st.alerts
    THEN [st EXCEPT !.alerts = Remove(st.alerts, identifier)]
    ELSE st

\* _set_alert
set_alert(st, identifier, message) ==
    [st EXCEPT !.alerts = Put(st.alerts, identifier, message)]

\* Mutant of consume_reward_tile: the tile leaves the list and the reward map
\* keeps its value.
consume_reward_tile_keeping_reward(st, location, reward_value) ==
    IF reward_value = 0 THEN st
    ELSE [st EXCEPT
            !.reward_tiles =
                SelectSeq(st.reward_tiles, LAMBDA tile : tile.location # location)]

\* _consume_reward_tile
consume_reward_tile(st, location, reward_value) ==
    IF reward_value = 0 THEN st
    ELSE [st EXCEPT
            !.rewards = set_reward(st.rewards, location, 0),
            !.reward_tiles =
                SelectSeq(st.reward_tiles, LAMBDA tile : tile.location # location)]

\* The environment's step applied within a tick: its result and the state after.
SimEnvStep(st, node, action) ==
    LET r == Env_step(st.node_states, st.rewards, node, IntArg(action))
    IN  [r |-> r, st |-> [st EXCEPT !.node_states = r.node_states]]

RECURSIVE InsertDescending(_, _, _)
\* Places an action after every action whose key is at least its own.
InsertDescending(sorted, action, key) ==
    IF sorted = <<>> THEN <<action>>
    ELSE IF key[Head(sorted)] >= key[action]
         THEN <<Head(sorted)>> \o InsertDescending(Tail(sorted), action, key)
         ELSE <<action>> \o sorted

RECURSIVE SortedDescending(_, _)
\* sorted(list, key=..., reverse=True): a stable sort, greatest key first.
SortedDescending(list, key) ==
    IF list = <<>> THEN <<>>
    ELSE InsertDescending(SortedDescending(SubSeq(list, 1, Len(list) - 1), key),
                          list[Len(list)], key)

\* Mutant of RankFallback: a dog whose model cannot be used is handed no
\* action at all, as a cat is.
RankFallback_without_stop(allow_stop) ==
    [ranked |-> <<>>, requested |-> TRUE]

\* The ranking returned when the model cannot be used; a model request is
\* broadcast.
RankFallback(allow_stop) ==
    [ranked |-> IF allow_stop THEN <<STOP>> ELSE <<>>, requested |-> TRUE]

\* _rank_actions that returns the actions in the order of their Q-values.
rank_actions_by_value(node, actions, allow_stop) ==
    LET filtered_actions == SelectSeq(actions, LAMBDA a : allow_stop \/ a # STOP)
    IN  IF node.identifier \notin DOMAIN models THEN RankFallback(allow_stop)
        ELSE IF encode_state(node.location).raised THEN RankFallback(allow_stop)
        ELSE
          LET model == models[node.identifier]
              state == encode_state(node.location).value
              ranked == SortedDescending(
                            IF filtered_actions # <<>> THEN filtered_actions ELSE actions,
                            [a \in Action |-> get_q_value(model, state, a)])
          IN  IF policy(model, state) = NoPolicy \/ ranked = <<>>
              THEN RankFallback(allow_stop)
              ELSE [ranked |-> ranked, requested |-> FALSE]

\* _rank_actions
rank_actions(node, actions, allow_stop) ==
    LET filtered_actions == SelectSeq(actions, LAMBDA a : allow_stop \/ a # STOP)
    IN  IF node.identifier \notin DOMAIN models THEN RankFallback(allow_stop)
        ELSE IF encode_state(node.location).raised THEN RankFallback(allow_stop)
        ELSE
          LET model == models[node.identifier]
              state == encode_state(node.location).value
              policy_action == policy(model, state)
              ranked == SortedDescending(
                            IF filtered_actions # <<>> THEN filtered_actions ELSE actions,
                            [a \in Action |-> get_q_value(model, state, a)])
              preferred_action ==
                  IF ~allow_stop /\ policy_action = STOP
                  THEN IF \E i \in 1..Len(ranked) : ranked[i] # STOP
                       THEN ranked[CHOOSE i \in 1..Len(ranked) :
                                     /\ ranked[i] # STOP
                                     /\ \A j \in 1..(i - 1) : ranked[j] = STOP]
                       ELSE NoPolicy
                  ELSE policy_action
          IN  IF policy_action = NoPolicy THEN RankFallback(allow_stop)
              ELSE IF ranked = <<>> \/ preferred_action = NoPolicy
                      \/ ~InList(preferred_action, ranked)
                   THEN RankFallback(allow_stop)
                   ELSE [ranked |-> <<preferred_action>> \o
                                    SelectSeq(ranked, LAMBDA a : a # preferred_action),
                         requested |-> FALSE]

(***************************************************************************)
(* One agent's turn.  A turn yields the set of results the generator's     *)
(* draws allow; each result carries the node returned, the state after,    *)
(* and a record of what the turn did.                                      *)
(***************************************************************************)
TurnRecord(node, agent_type, occupied, path) ==
    [identifier |-> node.identifier, agent_type |-> agent_type,
     from |-> node.location, to |-> node.location, occupied |-> occupied,
     path |-> path, ranked |-> <<>>, requested |-> FALSE, steps |-> <<>>,
     reward |-> 0, state_update |-> FALSE, battery |-> node.battery_level]

\* An exception of the environment leaves the turn, and the tick, unfinished.
TurnRaised(st, node, turn) ==
    [raised |-> TRUE, node |-> node, st |-> st, turn |-> turn]

\* return self._drain_battery(result)
Drained(st, result, turn) ==
    { [raised |-> FALSE, node |-> drain_battery(result, d), st |-> st,
       turn |-> [turn EXCEPT !.to = result.location]] : d \in rng.drain }

\* Mutant of Commit: the node the environment returns is dropped and the
\* caller's node kept.
Commit_keeping_node(st, node, action, clears, turn) ==
    LET e == SimEnvStep(st, node, action)
        t == [turn EXCEPT !.steps = Append(@, action)]
    IN  IF e.r.raised THEN {TurnRaised(e.st, node, t)}
        ELSE Drained(IF clears THEN clear_alert(e.st, node.identifier) ELSE e.st,
                     node, [t EXCEPT !.reward = e.r.reward])

\* Mutant of Commit: a DO_WORK that earns a reward consumes the tile under
\* the agent, whoever issues it.
Commit_consuming(st, node, action, clears, turn) ==
    LET e == SimEnvStep(st, node, action)
        t == [turn EXCEPT !.steps = Append(@, action)]
    IN  IF e.r.raised THEN {TurnRaised(e.st, node, t)}
        ELSE Drained(IF action = DO_WORK /\ e.r.reward > 0
                     THEN consume_reward_tile(
                              IF clears THEN clear_alert(e.st, node.identifier) ELSE e.st,
                              e.r.node.location, e.r.reward)
                     ELSE IF clears THEN clear_alert(e.st, node.identifier) ELSE e.st,
                     e.r.node, [t EXCEPT !.reward = e.r.reward])

\* environment.step(node, action); a dog's alert is cleared; the battery drains.
Commit(st, node, action, clears, turn) ==
    LET e == SimEnvStep(st, node, action)
        t == [turn EXCEPT !.steps = Append(@, action)]
    IN  IF e.r.raised THEN {TurnRaised(e.st, node, t)}
        ELSE Drained(IF clears THEN clear_alert(e.st, node.identifier) ELSE e.st,
                     e.r.node, [t EXCEPT !.reward = e.r.reward])

\* The harvest branch without the call of _consume_reward_tile.
Harvest_unconsumed(st, node, turn) ==
    LET e == SimEnvStep(st, node, DO_WORK)
        t == [turn EXCEPT !.steps = Append(@, DO_WORK), !.path = "harvest"]
    IN  IF e.r.raised THEN {TurnRaised(e.st, node, t)}
        ELSE Drained(e.st, e.r.node,
                     [t EXCEPT !.reward = e.r.reward, !.state_update = TRUE])

\* The cat's harvest branch of _move_node.
Harvest(st, node, turn) ==
    LET e == SimEnvStep(st, node, DO_WORK)
        t == [turn EXCEPT !.steps = Append(@, DO_WORK), !.path = "harvest"]
    IN  IF e.r.raised THEN {TurnRaised(e.st, node, t)}
        ELSE Drained(consume_reward_tile(e.st, e.r.node.location, e.r.reward),
                     e.r.node,
                     [t EXCEPT !.reward = e.r.reward, !.state_update = TRUE])

\* candidate_position in occupied, for a movement action
Blocked(node, action, occupied) ==
    /\ action \in DOMAIN ACTION_TO_VECTOR
    /\ <<node.location.x + ACTION_TO_VECTOR[action][1],
         node.location.y + ACTION_TO_VECTOR[action][2]>> \in occupied

\* _enter_stop_state
enter_stop_state(st, node, turn) ==
    Commit(st, node, STOP, FALSE, [turn EXCEPT !.requested = TRUE])

\* _handle_no_viable_action
handle_no_viable_action(st, node, reason, turn) ==
    enter_stop_state(set_alert(st, node.identifier, reason), node,
                     [turn EXCEPT !.path = "no_viable"])

\* _handle_no_available_actions that lets a dog hold position as a cat does.
handle_no_available_actions_silent(st, node, agent_type, turn) ==
    Drained(st, node, [turn EXCEPT !.path = "no_actions"])

\* _handle_no_available_actions
handle_no_available_actions(st, node, agent_type, turn) ==
    IF agent_type = "dog"
    THEN handle_no_viable_action(st, node, "Dog has no available actions", turn)
    ELSE Drained(st, node, [turn EXCEPT !.path = "no_actions"])

\* _fallback_cat_action: the shuffle lets any unoccupied movement come first.
fallback_cat_action(st, node, actions, occupied, turn) ==
    LET movement_actions ==
            {actions[i] : i \in 1..Len(actions)} \cap DOMAIN ACTION_TO_VECTOR
        free == {a \in movement_actions : ~Blocked(node, a, occupied)}
    IN  IF free # {}
        THEN UNION { Commit(st, node, a, FALSE, [turn EXCEPT !.path = "fallback_move"])
                     : a \in free }
        ELSE IF InList(DO_WORK, actions)
             THEN Commit(st, node, DO_WORK, FALSE,
                         [turn EXCEPT !.path = "fallback_work"])
             ELSE Drained(st, node, [turn EXCEPT !.path = "fallback_hold"])

\* Mutant of act_node: the action committed is any viable action of the
\* ranking, as if the ranking were walked in no fixed order.
act_node_unordered(st, node, occupied, agent_type, turn) ==
    IF surroundings_for_raises(node.location)
    THEN {TurnRaised(st, node, [turn EXCEPT !.path = "raised"])}
    ELSE
      LET actions == available_actions(surroundings_for(node.location))
          ranking == rank_actions(node, actions, agent_type # "cat")
          ranked_actions == ranking.ranked
          viable == {i \in 1..Len(ranked_actions) :
                        ~Blocked(node, ranked_actions[i], occupied)}
          ranked_turn == [turn EXCEPT !.ranked = ranked_actions,
                                      !.requested = ranking.requested]
      IN  IF actions = <<>>
          THEN handle_no_available_actions(st, node, agent_type, turn)
          ELSE IF /\ agent_type = "cat"
                  /\ reward_at(st.rewards, node.location) > 0
                  /\ InList(DO_WORK, actions)
          THEN Harvest(st, node, turn)
          ELSE IF viable # {}
          THEN UNION { Commit(st, node, ranked_actions[i], agent_type = "dog",
                              [ranked_turn EXCEPT !.path = "ranked"])
                       : i \in viable }
          ELSE IF agent_type = "cat"
          THEN fallback_cat_action(st, node, actions, occupied, ranked_turn)
          ELSE handle_no_viable_action(st, node,
                   "No viable action from trained model", ranked_turn)

\* Mutant of act_node: the ranking is walked without the occupancy test, so
\* the first ranked action is stepped even into an occupied cell.
act_node_unskipping(st, node, occupied, agent_type, turn) ==
    IF surroundings_for_raises(node.location)
    THEN {TurnRaised(st, node, [turn EXCEPT !.path = "raised"])}
    ELSE
      LET actions == available_actions(surroundings_for(node.location))
          ranking == rank_actions(node, actions, agent_type # "cat")
          ranked_actions == ranking.ranked
          ranked_turn == [turn EXCEPT !.ranked = ranked_actions,
                                      !.requested = ranking.requested]
      IN  IF actions = <<>>
          THEN handle_no_available_actions(st, node, agent_type, turn)
          ELSE IF /\ agent_type = "cat"
                  /\ reward_at(st.rewards, node.location) > 0
                  /\ InList(DO_WORK, actions)
          THEN Harvest(st, node, turn)
          ELSE IF ranked_actions # <<>>
          THEN Commit(st, node, Head(ranked_actions), agent_type = "dog",
                      [ranked_turn EXCEPT !.path = "ranked"])
          ELSE IF agent_type = "cat"
          THEN fallback_cat_action(st, node, actions, occupied, ranked_turn)
          ELSE handle_no_viable_action(st, node,
                   "No viable action from trained model", ranked_turn)

\* Mutant of act_node: only the first action of the ranking is tried; when it
\* is blocked the agent goes on as if the ranking had no viable action.
act_node_preferred_only(st, node, occupied, agent_type, turn) ==
    IF surroundings_for_raises(node.location)
    THEN {TurnRaised(st, node, [turn EXCEPT !.path = "raised"])}
    ELSE
      LET actions == available_actions(surroundings_for(node.location))
          ranking == rank_actions(node, actions, agent_type # "cat")
          ranked_actions == ranking.ranked
          ranked_turn == [turn EXCEPT !.ranked = ranked_actions,
                                      !.requested = ranking.requested]
      IN  IF actions = <<>>
          THEN handle_no_available_actions(st, node, agent_type, turn)
          ELSE IF /\ agent_type = "cat"
                  /\ reward_at(st.rewards, node.location) > 0
                  /\ InList(DO_WORK, actions)
          THEN Harvest(st, node, turn)
          ELSE IF ranked_actions # <<>> /\ ~Blocked(node, Head(ranked_actions), occupied)
          THEN Commit(st, node, Head(ranked_actions), agent_type = "dog",
                      [ranked_turn EXCEPT !.path = "ranked"])
          ELSE IF agent_type = "cat"
          THEN fallback_cat_action(st, node, actions, occupied, ranked_turn)
          ELSE handle_no_viable_action(st, node,
                   "No viable action from trained model", ranked_turn)

\* _move_node once the idle roll has failed.
act_node(st, node, occupied, agent_type, turn) ==
    IF surroundings_for_raises(node.location)
    THEN {TurnRaised(st, node, [turn EXCEPT !.path = "raised"])}
    ELSE
      LET actions == available_actions(surroundings_for(node.location))
          ranking == rank_actions(node, actions, agent_type # "cat")
          ranked_actions == ranking.ranked
          viable == {i \in 1..Len(ranked_actions) :
                        ~Blocked(node, ranked_actions[i], occupied)}
          ranked_turn == [turn EXCEPT !.ranked = ranked_actions,
                                      !.requested = ranking.requested]
      IN  IF actions = <<>>
          THEN handle_no_available_actions(st, node, agent_type, turn)
          ELSE IF /\ agent_type = "cat"
                  /\ reward_at(st.rewards, node.location) > 0
                  /\ InList(DO_WORK, actions)
          THEN Harvest(st, node, turn)
          ELSE IF viable # {}
          THEN Commit(st, node,
                      ranked_actions[CHOOSE i \in viable : \A j \in viable : i <= j],
                      agent_type = "dog", [ranked_turn EXCEPT !.path = "ranked"])
          ELSE IF agent_type = "cat"
          THEN fallback_cat_action(st, node, actions, occupied, ranked_turn)
          ELSE handle_no_viable_action(st, node,
                   "No viable action from trained model", ranked_turn)

\* self._rng.random() < idle_probability, for a draw in [0, 1); the chance is
\* in hundredths and clamped to [0, 1] first.
IdleRolls(idle_probability) ==
    LET p == IF idle_probability < 0 THEN 0
             ELSE IF idle_probability > 100 THEN 100 ELSE idle_probability
    IN  {TRUE : q \in {p} \ {0}} \cup {FALSE : q \in {p} \ {100}}

\* _move_node
move_node(st, node, occupied, agent_type, idle_probability) ==
    LET turn == TurnRecord(node, agent_type, occupied, "idle")
    IN  UNION {
          IF idle
          THEN Drained(IF agent_type = "dog" THEN clear_alert(st, node.identifier)
                       ELSE st,
                       node, turn)
          ELSE act_node(st, node, occupied, agent_type, turn)
          : idle \in IdleRolls(idle_probability) }

RECURSIVE advance_group(_, _, _, _, _)
\* _advance_group from the index-th node on; acc carries the state so far,
\* the occupied set, the nodes already updated and their turns.
advance_group(acc, nodes, index, agent_type, idle_probability) ==
    IF index > Len(nodes) THEN {acc}
    ELSE
      LET node == nodes[index]
          occupied == acc.occupied \ {Coordinate(node.location)}
      IN  UNION {
            IF o.raised
            THEN {[acc EXCEPT !.raised = TRUE, !.st = o.st, !.occupied = occupied,
                              !.turns = Append(@, o.turn)]}
            ELSE advance_group(
                   [raised |-> FALSE, st |-> o.st,
                    occupied |-> occupied \cup {Coordinate(o.node.location)},
                    updated |-> Append(acc.updated, o.node),
                    turns |-> Append(acc.turns, o.turn)],
                   nodes, index + 1, agent_type, idle_probability)
            : o \in move_node(acc.st, node, occupied, agent_type, idle_probability) }

Positions(nodes) == {Coordinate(nodes[i].location) : i \in 1..Len(nodes)}

GroupStart(st, occupied) ==
    [raised |-> FALSE, st |-> st, occupied |-> occupied, updated |-> <<>>,
     turns |-> <<>>]

\* step that hands the dogs the cats' positions of before the cat phase.
Sim_step_stale_cats(st, new_tick) ==
    LET dog_idle_probability ==
            IF new_tick % DogMoveInterval = 0 THEN DogIdleChance ELSE 100
    IN  UNION {
          IF c.raised
          THEN {[raised |-> TRUE, cats |-> cats, dogs |-> dogs, st |-> c.st,
                 turns |-> c.turns]}
          ELSE { [raised |-> d.raised, cats |-> c.updated,
                  dogs |-> IF d.raised THEN dogs ELSE d.updated,
                  st |-> d.st, turns |-> c.turns \o d.turns]
                 : d \in advance_group(
                            GroupStart(c.st, Positions(cats) \cup Positions(dogs)),
                            dogs, 1, "dog", dog_idle_probability) }
          : c \in advance_group(GroupStart(st, Positions(dogs)), cats, 1, "cat",
                                CatIdleChance) }

\* step that lets the dogs roll on every tick.
Sim_step_every_tick(st, new_tick) ==
    LET dog_idle_probability ==
            DogIdleChance
    IN  UNION {
          IF c.raised
          THEN {[raised |-> TRUE, cats |-> cats, dogs |-> dogs, st |-> c.st,
                 turns |-> c.turns]}
          ELSE { [raised |-> d.raised, cats |-> c.updated,
                  dogs |-> IF d.raised THEN dogs ELSE d.updated,
                  st |-> d.st, turns |-> c.turns \o d.turns]
                 : d \in advance_group(
                            GroupStart(c.st, Positions(c.updated) \cup Positions(dogs)),
                            dogs, 1, "dog", dog_idle_probability) }
          : c \in advance_group(GroupStart(st, Positions(dogs)), cats, 1, "cat",
                                CatIdleChance) }

\* MeshSimulation.step: the results the generator's draws allow.  An
\* exception leaves the group being advanced unassigned.
Sim_step(st, new_tick) ==
    LET dog_idle_probability ==
            IF new_tick % DogMoveInterval = 0 THEN DogIdleChance ELSE 100
    IN  UNION {
          IF c.raised
          THEN {[raised |-> TRUE, cats |-> cats, dogs |-> dogs, st |-> c.st,
                 turns |-> c.turns]}
          ELSE { [raised |-> d.raised, cats |-> c.updated,
                  dogs |-> IF d.raised THEN dogs ELSE d.updated,
                  st |-> d.st, turns |-> c.turns \o d.turns]
                 : d \in advance_group(
                            GroupStart(c.st, Positions(c.updated) \cup Positions(dogs)),
                            dogs, 1, "dog", dog_idle_probability) }
          : c \in advance_group(GroupStart(st, Positions(dogs)), cats, 1, "cat",
                                CatIdleChance) }

(***************************************************************************)
(* MeshSimulation: set_models and add_reward_tile.                         *)
(***************************************************************************)
QLearningAgent(q_table) == [kind |-> "QLearningAgent", q_table |-> q_table]

\* not identifier.strip()
IsBlank(identifier) == identifier \in {"", " "}

\* The registry a dict built from the items, in order, holds: the last model
\* given for each identifier.
Validated(items) ==
    [k \in {items[i][1] : i \in 1..Len(items)} |->
        LET last == CHOOSE i \in 1..Len(items) :
                       /\ items[i][1] = k
                       /\ \A j \in (i + 1)..Len(items) : items[j][1] # k
        IN  items[last][2]]

\* set_models that registers each item as it is validated.
set_models_in_place(registry, items) ==
    LET bad == {i \in 1..Len(items) :
                   IsBlank(items[i][1]) \/ items[i][2].kind # "QLearningAgent"}
        first == CHOOSE i \in bad : \A j \in bad : i <= j
    IN  IF bad # {}
        THEN [raised |-> TRUE,
              error |-> IF IsBlank(items[first][1]) THEN "ValueError" ELSE "TypeError",
              models |-> Validated(SubSeq(items, 1, first - 1))]
        ELSE [raised |-> FALSE, models |-> Validated(items)]

\* set_models on a registry and the items of the mapping, in the mapping's
\* order: the first invalid item raises before the registry is assigned.
\* The result holds the registry the call leaves.
set_models(registry, items) ==
    LET bad == {i \in 1..Len(items) :
                   IsBlank(items[i][1]) \/ items[i][2].kind # "QLearningAgent"}
        first == CHOOSE i \in bad : \A j \in bad : i <= j
    IN  IF bad # {}
        THEN [raised |-> TRUE,
              error |-> IF IsBlank(items[first][1]) THEN "ValueError" ELSE "TypeError",
              models |-> registry]
        ELSE [raised |-> FALSE, models |-> Validated(items)]

\* _is_interior
is_interior(location) ==
    /\ 0 < location.x /\ location.x < width - 1
    /\ 0 < location.y /\ location.y < height - 1

RewardTile(location, value) == [location |-> location, value |-> value]

\* add_reward_tile that places the tile before it validates the location.
add_reward_tile_unchecked(tiles, rw, location, value) ==
    IF ~value.is_int
    THEN [raised |-> TRUE, error |-> "TypeError", reward_tiles |-> tiles, rewards |-> rw]
    ELSE
      LET tile == RewardTile(location, value.value)
          replaced == \E i \in 1..Len(tiles) : tiles[i].location = location
          updated == [i \in 1..Len(tiles) |->
                         IF tiles[i].location = location THEN tile ELSE tiles[i]]
          placed == IF replaced THEN updated ELSE Append(updated, tile)
      IN  IF ~is_interior(location)
          THEN [raised |-> TRUE, error |-> "ValueError", reward_tiles |-> placed,
                rewards |-> rw]
          ELSE [raised |-> FALSE, reward_tiles |-> placed,
                rewards |-> set_reward(rw, location, value.value)]

\* add_reward_tile that appends the tile whether or not one is there.
add_reward_tile_appending(tiles, rw, location, value) ==
    IF ~value.is_int
    THEN [raised |-> TRUE, error |-> "TypeError", reward_tiles |-> tiles, rewards |-> rw]
    ELSE IF ~is_interior(location)
    THEN [raised |-> TRUE, error |-> "ValueError", reward_tiles |-> tiles, rewards |-> rw]
    ELSE [raised |-> FALSE,
          reward_tiles |-> Append(tiles, RewardTile(location, value.value)),
          rewards |-> set_reward(rw, location, value.value)]

\* add_reward_tile that leaves the value of a tile already there.
add_reward_tile_keeping(tiles, rw, location, value) ==
    IF ~value.is_int
    THEN [raised |-> TRUE, error |-> "TypeError", reward_tiles |-> tiles, rewards |-> rw]
    ELSE IF ~is_interior(location)
    THEN [raised |-> TRUE, error |-> "ValueError", reward_tiles |-> tiles, rewards |-> rw]
    ELSE
      LET tile == RewardTile(location, value.value)
          replaced == \E i \in 1..Len(tiles) : tiles[i].location = location
      IN  [raised |-> FALSE,
           reward_tiles |-> IF replaced THEN tiles ELSE Append(tiles, tile),
           rewards |-> IF replaced THEN rw ELSE set_reward(rw, location, value.value)]

\* add_reward_tile on the tile list and the environment's reward map.  The
\* result holds the list and the map the call leaves; the checks raise
\* before either is touched.
add_reward_tile(tiles, rw, location, value) ==
    IF ~value.is_int
    THEN [raised |-> TRUE, error |-> "TypeError", reward_tiles |-> tiles, rewards |-> rw]
    ELSE IF ~is_interior(location)
    THEN [raised |-> TRUE, error |-> "ValueError", reward_tiles |-> tiles, rewards |-> rw]
    ELSE
      LET tile == RewardTile(location, value.value)
          replaced == \E i \in 1..Len(tiles) : tiles[i].location = location
          updated == [i \in 1..Len(tiles) |->
                         IF tiles[i].location = location THEN tile ELSE tiles[i]]
      IN  [raised |-> FALSE,
           reward_tiles |-> IF replaced THEN updated ELSE Append(updated, tile),
           rewards |-> set_reward(rw, location, value.value)]

\* SimulationSnapshot
SimulationSnapshot(grid, cat_nodes, dog_nodes, tiles, alert_map) ==
    [grid |-> grid, cats |-> cat_nodes, dogs |-> dog_nodes, rewards |-> tiles,
     alerts |-> alert_map]

\* snapshot that counts itself as a tick.
snapshot_ticking(world) ==
    [value |-> SimulationSnapshot([width |-> width, height |-> height], world.cats,
                                  world.dogs, world.reward_tiles, world.alerts),
     world |-> [world EXCEPT !.tick = @ + 1]]

\* snapshot() on the simulation's fields: the value returned and the fields
\* the call leaves.
snapshot(world) ==
    [value |-> SimulationSnapshot([width |-> width, height |-> height], world.cats,
                                  world.dogs, world.reward_tiles, world.alerts),
     world |-> world]

(***************************************************************************)
(* MeshSimulation.__init__.  The generator's probing for a free cell, and  *)
(* the scan that follows it, return some free interior cell, or raise when *)
(* there is none.                                                          *)
(***************************************************************************)
interior_locations ==
    {GridLocation(x, y) : x \in 1..(width - 2), y \in 1..(height - 2)}

\* Mutant of random_location: border cells are drawn too.
random_location_anywhere(occupied) ==
    {c \in {GridLocation(x, y) : x \in 0..(width - 1), y \in 0..(height - 1)} :
        Coordinate(c) \notin occupied}

\* Mutant of random_location: with no free cell left, a taken one is returned.
random_location_reusing(occupied) ==
    IF \A c \in interior_locations : Coordinate(c) \in occupied
    THEN interior_locations
    ELSE {c \in interior_locations : Coordinate(c) \notin occupied}

\* limit = max(1, interior_width * interior_height * 2)
probe_limit ==
    IF (width - 2) * (height - 2) * 2 > 1 THEN (width - 2) * (height - 2) * 2 ELSE 1

RECURSIVE probe_location(_, _)
\* The while loop of _random_location and _random_interior_location after
\* attempts probes, the row-major scan that follows it and the final raise:
\* every result, over every cell a probe can draw.
probe_location(occupied, attempts) ==
    LET free == {c \in interior_locations : Coordinate(c) \notin occupied}
    IN  IF attempts < probe_limit
        THEN {[raised |-> FALSE, location |-> c] : c \in free}
             \cup (IF free # interior_locations
                   THEN probe_location(occupied, attempts + 1) ELSE {})
        ELSE IF free = {} THEN {[raised |-> TRUE, error |-> "RuntimeError"]}
        ELSE {[raised |-> FALSE,
               location |-> CHOOSE c \in free :
                               \A o \in free : \/ c.y < o.y
                                               \/ c.y = o.y /\ c.x <= o.x]}

\* _random_location and _random_interior_location: the cells either can return.
random_location(occupied) ==
    {c \in interior_locations : Coordinate(c) \notin occupied}

AgentIdentifier(prefix, number) ==
    IF prefix = "cat" THEN <<"cat-1", "cat-2", "cat-3">>[number]
    ELSE <<"dog-1", "dog-2", "dog-3">>[number]

RECURSIVE spawn_agents(_, _, _)
\* _spawn_agents, count agents still to place; acc = [raised, agents, occupied].
spawn_agents(prefix, count, acc) ==
    IF count = 0 THEN {acc}
    ELSE IF random_location(acc.occupied) = {} THEN {[acc EXCEPT !.raised = TRUE]}
    ELSE UNION {
           spawn_agents(prefix, count - 1,
               [raised |-> FALSE,
                agents |-> Append(acc.agents,
                              MeshtasticNode(AgentIdentifier(prefix, Len(acc.agents) + 1),
                                             battery, efficiency, location)),
                occupied |-> acc.occupied \cup {Coordinate(location)}])
           : location \in random_location(acc.occupied),
             battery \in rng.battery, efficiency \in rng.efficiency }

RECURSIVE explicit_reward_tiles(_, _)
\* The loop of _initialize_reward_tiles over explicit (x, y, value) tiles;
\* acc = [raised, tiles, occupied].
explicit_reward_tiles(explicit_tiles, acc) ==
    IF explicit_tiles = <<>> THEN acc
    ELSE LET t == Head(explicit_tiles)
             location == GridLocation(t[1], t[2])
         IN  IF ~is_interior(location) \/ Coordinate(location) \in acc.occupied
             THEN [acc EXCEPT !.raised = TRUE]
             ELSE explicit_reward_tiles(Tail(explicit_tiles),
                      [raised |-> FALSE,
                       tiles |-> Append(acc.tiles, RewardTile(location, t[3])),
                       occupied |-> acc.occupied \cup {Coordinate(location)}])

RECURSIVE generate_random_rewards(_, _, _)
\* _generate_random_rewards appended to the tiles of acc.
generate_random_rewards(count, value, acc) ==
    IF acc.raised \/ count = 0 THEN {acc}
    ELSE IF random_location(acc.occupied) = {} THEN {[acc EXCEPT !.raised = TRUE]}
    ELSE UNION {
           generate_random_rewards(count - 1, value,
               [raised |-> FALSE,
                tiles |-> Append(acc.tiles, RewardTile(location, value)),
                occupied |-> acc.occupied \cup {Coordinate(location)}])
           : location \in random_location(acc.occupied) }

\* _initialize_reward_tiles
initialize_reward_tiles(args) ==
    UNION { generate_random_rewards(args.negative_reward_count,
                                    args.negative_reward_value, positive)
            : positive \in generate_random_rewards(
                  args.positive_reward_count, args.positive_reward_value,
                  explicit_reward_tiles(args.reward_tiles,
                      [raised |-> FALSE, tiles |-> <<>>, occupied |-> {}])) }

\* _reward_lookup
reward_lookup(tiles) ==
    [c \in {Coordinate(tiles[i].location) : i \in 1..Len(tiles)} |->
        LET last == CHOOSE i \in 1..Len(tiles) :
                       /\ Coordinate(tiles[i].location) = c
                       /\ \A j \in (i + 1)..Len(tiles) :
                              Coordinate(tiles[j].location) # c
        IN  tiles[last].value]

\* The argument checks that open __init__.
ArgumentsRejected(args) ==
    \/ args.width < 3 \/ args.height < 3
    \/ args.cat_count < 0 \/ args.dog_count < 0
    \/ args.cat_count + args.dog_count > args.width * args.height
    \/ args.positive_reward_count < 0 \/ args.negative_reward_count < 0

\* Mutant of Construct: the dogs are placed with an occupied set of their own.
Construct_separate_groups(args) ==
    UNION {
      IF t.raised THEN {[raised |-> TRUE, error |-> "ValueError"]}
      ELSE UNION {
             IF c.raised THEN {[raised |-> TRUE, error |-> "RuntimeError"]}
             ELSE { IF d.raised THEN [raised |-> TRUE, error |-> "RuntimeError"]
                    ELSE [raised |-> FALSE, reward_tiles |-> t.tiles,
                          rewards |-> reward_lookup(t.tiles),
                          cats |-> c.agents, dogs |-> d.agents]
                    : d \in spawn_agents("dog", args.dog_count,
                               [raised |-> FALSE, agents |-> <<>>,
                                occupied |-> {}]) }
             : c \in spawn_agents("cat", args.cat_count,
                        [raised |-> FALSE, agents |-> <<>>, occupied |-> {}]) }
      : t \in initialize_reward_tiles(args) }

\* __init__ past the argument checks, on a grid of width x height: the
\* simulations it can return, and a raised result where it fails.
Construct(args) ==
    UNION {
      IF t.raised
      THEN {[raised |-> TRUE,
             error |-> IF explicit_reward_tiles(args.reward_tiles,
                              [raised |-> FALSE, tiles |-> <<>>,
                               occupied |-> {}]).raised
                       THEN "ValueError" ELSE "RuntimeError"]}
      ELSE UNION {
             IF c.raised THEN {[raised |-> TRUE, error |-> "RuntimeError"]}
             ELSE { IF d.raised THEN [raised |-> TRUE, error |-> "RuntimeError"]
                    ELSE [raised |-> FALSE, reward_tiles |-> t.tiles,
                          rewards |-> reward_lookup(t.tiles),
                          cats |-> c.agents, dogs |-> d.agents]
                    : d \in spawn_agents("dog", args.dog_count,
                               [raised |-> FALSE, agents |-> <<>>,
                                occupied |-> c.occupied]) }
             : c \in spawn_agents("cat", args.cat_count,
                        [raised |-> FALSE, agents |-> <<>>, occupied |-> {}]) }
      : t \in initialize_reward_tiles(args) }

(***************************************************************************)
(* The public interface is observed through call (the operation and its    *)
(* arguments, with the state it was made in) and ret (its outcome).        *)
(***************************************************************************)
NoCall == [op |-> "init"]

NoReturn == [raised |-> FALSE, pending |-> TRUE]

NoSimulation ==
    /\ cats = <<>>
    /\ dogs = <<>>
    /\ reward_tiles = <<>>
    /\ alerts = EmptyDict
    /\ models = EmptyDict
    /\ tick = 0
    /\ rng = [drain |-> {}]
    /\ turns = <<>>

sim_vars == <<cats, dogs, reward_tiles, alerts, models, tick, rng, turns>>

env_vars == <<width, height, rewards, node_states, patched>>

(***************************************************************************)
(* SpecPure: the value-type functions applied to inputs drawn in Init.     *)
(***************************************************************************)
\* Every cell of the EnvWidth x EnvHeight grid, border included.
GridCells ==
    {GridLocation(x, y) : x \in 0..(EnvWidth - 1), y \in 0..(EnvHeight - 1)}

\* grid_width arguments: rejected (0), narrower than the cells, the tests' 5.
PureWidths == {0, EnvWidth - 2, 5}

\* The inputs drawn: a Surroundings value (action_mask, available_actions),
\* a NodeState with a grid_width (encode), a location (encode_state).
PureInputs ==
    {[op |-> "input", kind |-> "surroundings", surroundings |-> s] :
        s \in AllSurroundings}
    \cup {[op |-> "input", kind |-> "node_state", location |-> c,
           surroundings |-> s, grid_width |-> w] :
            c \in GridCells, s \in AllSurroundings, w \in PureWidths}
    \cup {[op |-> "input", kind |-> "location", location |-> c] :
            c \in GridCells \cup {GridLocation(EnvWidth, 2)}}

InitPure ==
    /\ width = EnvWidth
    /\ height = EnvHeight
    /\ rewards = EmptyDict
    /\ node_states = EmptyDict
    /\ patched = <<>>
    /\ agent = NoAgent
    /\ manager = NoManager
    /\ NoSimulation
    /\ call \in PureInputs
    /\ ret = NoReturn

PureApply(kind, op, result) ==
    /\ call.op = "input"
    /\ call.kind = kind
    /\ call' = [call EXCEPT !.op = op]
    /\ ret' = result
    /\ UNCHANGED <<env_vars, sim_vars, agent, manager>>

CallActionMask ==
    PureApply("surroundings", "action_mask",
              Return(action_mask(call.surroundings)))

CallAvailableActions ==
    PureApply("surroundings", "available_actions",
              Return(available_actions(call.surroundings)))

CallNodeStateEncode ==
    PureApply("node_state", "encode",
              NodeState_encode(call.location, call.surroundings, call.grid_width))

CallEncodeState ==
    PureApply("location", "encode_state", encode_state(call.location))

NextPure ==
    \/ CallActionMask
    \/ CallAvailableActions
    \/ CallNodeStateEncode
    \/ CallEncodeState

SpecPure == InitPure /\ [][NextPure]_vars

(***************************************************************************)
(* SpecEnv: a GridWorldEnvironment(width, height, rewards) and callers of  *)
(* its step.  A caller holds a node value of its own: any location (the    *)
(* interior, the border, outside the grid), two battery levels, and an     *)
(* action argument that is a member of Action, an unknown integer or no    *)
(* integer.                                                                *)
(***************************************************************************)
EnvRewards ==
    (<<2, 1>> :> 5) @@ (<<2, 2>> :> 2) @@ (<<1, 1>> :> -3) @@ (<<3, 3>> :> 0)

InteriorCells ==
    {c \in GridCells :
        /\ 0 < c.x /\ c.x < EnvWidth - 1
        /\ 0 < c.y /\ c.y < EnvHeight - 1}

\* Locations a caller's node is at: each interior cell, a corner, a border
\* cell, a cell outside the grid.
CallerLocations ==
    InteriorCells \cup {GridLocation(0, 0), GridLocation(2, 0),
                        GridLocation(EnvWidth, 2)}

\* Arguments step rejects: unknown integers and a non-integer.
RejectedArgs == {IntArg(-1), IntArg(NumActions), NonIntArg}

EnvCalls ==
    {<<MeshtasticNode("node-1", 7500, 10, c), IntArg(a)>> :
        c \in CallerLocations, a \in Action}
    \cup {<<MeshtasticNode("node-1", 6000, 12, GridLocation(2, 2)), IntArg(a)>> :
            a \in Action}
    \cup {<<MeshtasticNode("node-1", 7500, 10, c), a>> :
            c \in {GridLocation(2, 2), GridLocation(0, 0)}, a \in RejectedArgs}
    \cup {<<MeshtasticNode("node-2", 6000, 8, GridLocation(1, 1)), IntArg(STOP)>>}

InitEnv ==
    /\ width = EnvWidth
    /\ height = EnvHeight
    /\ rewards = EnvRewards
    /\ node_states = EmptyDict
    /\ patched = <<>>
    /\ agent = NoAgent
    /\ manager = NoManager
    /\ NoSimulation
    /\ call = NoCall
    /\ ret = NoReturn

CallEnvStep ==
    \E c \in EnvCalls :
        \E r \in {Env_step(node_states, rewards, c[1], c[2])} :
            /\ node_states' = r.node_states
            /\ call' = [op |-> "step", node |-> c[1], arg |-> c[2],
                        before |-> node_states]
            /\ ret' = r
            /\ UNCHANGED <<width, height, rewards, patched, sim_vars, agent, manager>>

NextEnv == CallEnvStep

SpecEnv == InitEnv /\ [][NextEnv]_vars


(***************************************************************************)
(* Spec: a MeshSimulation and callers of step, set_models and              *)
(* add_reward_tile.  Batteries are in hundredths; the generator's draws    *)
(* are the low ends of the ranges the code draws from.                     *)
(***************************************************************************)
MaxTick == 3

DrainMin == 5
BatteryMin == 6200
EfficiencyMin == 6000

\* MeshSimulation(4, 4, cat_count=2, dog_count=1)
SimArguments ==
    { [width |-> 4, height |-> 4, cat_count |-> 2, dog_count |-> 1,
       reward_tiles |-> <<>>, positive_reward_count |-> 0,
       negative_reward_count |-> 0, positive_reward_value |-> 5,
       negative_reward_value |-> -5] }

\* The draws of the generator: one drain, one battery level, one efficiency.
SimDraws ==
    [drain |-> {DrainMin}, battery |-> {BatteryMin}, efficiency |-> {EfficiencyMin}]

\* A trained model whose table holds one action, valued 1, for every state
\* of the interior.
PolicyModel(action) ==
    QLearningAgent([state \in {encode_state(c).value : c \in interior_locations} |->
                       <<<<action, 1>>>>])

\* The mappings handed to set_models: none, one for a cat and the dog, and
\* one with a blank identifier.
ModelMappings ==
    { <<>>,
      << <<"cat-1", PolicyModel(MOVE_RIGHT)>>, <<"dog-1", PolicyModel(MOVE_RIGHT)>> >>,
      << <<"cat-2", PolicyModel(MOVE_LEFT)>>, <<"", PolicyModel(MOVE_LEFT)>> >> }

\* The tiles handed to add_reward_tile: a positive tile at an interior cell
\* and a tile on the border.
TileEdits ==
    { <<GridLocation(1, 1), IntArg(4)>>,
      <<GridLocation(0, 0), IntArg(1)>> }

\* The states __init__ returns in for the arguments and the generator given.
Constructed(arguments, draws) ==
    \E args \in arguments :
        /\ ~ArgumentsRejected(args)
        /\ width = args.width
        /\ height = args.height
        /\ rng = draws
        /\ \E world \in Construct(args) :
              /\ ~world.raised
              /\ reward_tiles = world.reward_tiles
              /\ rewards = world.rewards
              /\ cats = world.cats
              /\ dogs = world.dogs
        /\ node_states = EmptyDict
        /\ patched = <<>>
        /\ agent = NoAgent
        /\ manager = NoManager
        /\ alerts = EmptyDict
        /\ models = EmptyDict
        /\ tick = 0
        /\ turns = <<>>
        /\ call = NoCall
        /\ ret = NoReturn

\* step(), called while fewer than limit ticks have passed.
StepUntil(limit) ==
    /\ tick < limit
    /\ \E o \in Sim_step([node_states |-> node_states, rewards |-> rewards,
                          reward_tiles |-> reward_tiles, alerts |-> alerts],
                         tick + 1) :
          /\ tick' = tick + 1
          /\ cats' = o.cats
          /\ dogs' = o.dogs
          /\ node_states' = o.st.node_states
          /\ rewards' = o.st.rewards
          /\ reward_tiles' = o.st.reward_tiles
          /\ alerts' = o.st.alerts
          /\ turns' = o.turns
          /\ call' = [op |-> "simulation.step"]
          /\ ret' = [raised |-> o.raised, pending |-> FALSE]
    /\ UNCHANGED <<width, height, models, rng, patched, agent, manager>>

\* set_models(mapping) for a mapping among those given.
SetModelsAmong(mappings) ==
    /\ \E items \in mappings :
          \E r \in {set_models(models, items)} :
              /\ models' = r.models
              /\ call' = [op |-> "set_models", items |-> items]
              /\ ret' = IF r.raised
                        THEN [raised |-> TRUE, error |-> r.error, pending |-> FALSE]
                        ELSE [raised |-> FALSE, pending |-> FALSE]
    /\ turns' = <<>>
    /\ UNCHANGED <<width, height, rewards, node_states, cats, dogs, reward_tiles,
                   alerts, tick, rng, patched, agent, manager>>

\* add_reward_tile(location, value) for an edit among those given.
AddRewardTileAmong(edits) ==
    /\ \E edit \in edits :
          \E r \in {add_reward_tile(reward_tiles, rewards, edit[1], edit[2])} :
              /\ reward_tiles' = r.reward_tiles
              /\ rewards' = r.rewards
              /\ call' = [op |-> "add_reward_tile", location |-> edit[1],
                          value |-> edit[2]]
              /\ ret' = IF r.raised
                        THEN [raised |-> TRUE, error |-> r.error, pending |-> FALSE]
                        ELSE [raised |-> FALSE, pending |-> FALSE]
    /\ turns' = <<>>
    /\ UNCHANGED <<width, height, node_states, cats, dogs, alerts, models, tick, rng,
                   patched, agent, manager>>

\* snapshot()
Snapshot ==
    /\ \E r \in {snapshot([cats |-> cats, dogs |-> dogs, reward_tiles |-> reward_tiles,
                            alerts |-> alerts, tick |-> tick,
                            node_states |-> node_states, rewards |-> rewards])} :
          /\ cats' = r.world.cats
          /\ dogs' = r.world.dogs
          /\ reward_tiles' = r.world.reward_tiles
          /\ alerts' = r.world.alerts
          /\ tick' = r.world.tick
          /\ node_states' = r.world.node_states
          /\ rewards' = r.world.rewards
          /\ call' = [op |-> "snapshot"]
          /\ ret' = [raised |-> FALSE, pending |-> FALSE, value |-> r.value]
    /\ turns' = <<>>
    /\ UNCHANGED <<width, height, models, rng, patched, agent, manager>>

Init == Constructed(SimArguments, SimDraws)

Step == StepUntil(MaxTick)

SetModels == SetModelsAmong(ModelMappings)

AddRewardTile == AddRewardTileAmong(TileEdits)

Next == Step \/ SetModels \/ AddRewardTile

Spec == Init /\ [][Next]_vars

(***************************************************************************)
(* SpecTiles: a MeshSimulation built with reward tiles, and callers of     *)
(* step and add_reward_tile.                                               *)
(***************************************************************************)
\* MeshSimulation(4, 4, cat_count=1, dog_count=1, reward_tiles=[(1, 1, 3)],
\*                positive_reward_count=1)
TileArguments ==
    { [width |-> 4, height |-> 4, cat_count |-> 1, dog_count |-> 1,
       reward_tiles |-> << <<1, 1, 3>> >>, positive_reward_count |-> 1,
       negative_reward_count |-> 0, positive_reward_value |-> 5,
       negative_reward_value |-> -5] }

\* The tiles handed to add_reward_tile: two values for one interior cell, a
\* cell on the border, a cell outside the grid and a value that is no int.
TileCalls ==
    { <<GridLocation(2, 2), IntArg(4)>>,
      <<GridLocation(2, 2), IntArg(-2)>>,
      <<GridLocation(0, 0), IntArg(1)>>,
      <<GridLocation(4, 1), IntArg(1)>>,
      <<GridLocation(1, 2), NonIntArg>> }

InitTiles == Constructed(TileArguments, SimDraws)

StepTiles == StepUntil(MaxTick)

AddRewardTileTiles == AddRewardTileAmong(TileCalls)

NextTiles == StepTiles \/ AddRewardTileTiles \/ Snapshot

SpecTiles == InitTiles /\ [][NextTiles]_vars

(***************************************************************************)
(* SpecModels: a cat and a dog on a grid with one reward tile, and callers *)
(* of step and set_models.                                                 *)
(***************************************************************************)
\* MeshSimulation(4, 4, cat_count=1, dog_count=1, reward_tiles=[(1, 1, 3)])
ModelArguments ==
    { [width |-> 4, height |-> 4, cat_count |-> 1, dog_count |-> 1,
       reward_tiles |-> << <<1, 1, 3>> >>, positive_reward_count |-> 0,
       negative_reward_count |-> 0, positive_reward_value |-> 5,
       negative_reward_value |-> -5] }

\* A trained model whose table holds one action, of the value given, for
\* every state of the interior: the action is the model's policy there, and
\* every other action is valued 0.
ValuedModel(action, value) ==
    QLearningAgent([state \in {encode_state(c).value : c \in interior_locations} |->
                       <<<<action, value>>>>])

\* Something that is not a QLearningAgent.
NotAModel == [kind |-> "dict", q_table |-> <<>>]

\* The mappings handed to set_models: none; a model for each agent, the
\* dog's preferring STOP; models whose policy is valued below or level with
\* the other actions; a model for the cat alone, preferring STOP; a blank
\* identifier after a valid entry; an identifier of one space; a value that
\* is no QLearningAgent.
RegistryMappings ==
    { <<>>,
      << <<"cat-1", ValuedModel(MOVE_RIGHT, 1)>>, <<"dog-1", ValuedModel(STOP, 1)>> >>,
      << <<"cat-1", ValuedModel(MOVE_FORWARD, -1)>>,
         <<"dog-1", ValuedModel(MOVE_LEFT, 0)>> >>,
      << <<"cat-1", ValuedModel(STOP, 1)>> >>,
      << <<"dog-1", ValuedModel(MOVE_RIGHT, 1)>>, <<"", ValuedModel(MOVE_LEFT, 1)>> >>,
      << <<" ", ValuedModel(MOVE_LEFT, 1)>> >>,
      << <<"cat-1", NotAModel>> >> }

InitModels == Constructed(ModelArguments, SimDraws)

StepModels == StepUntil(MaxTick)

SetModelsModels == SetModelsAmong(RegistryMappings)

NextModels == StepModels \/ SetModelsModels

SpecModels == InitModels /\ [][NextModels]_vars

(***************************************************************************)
(* SpecPack: one cat and two dogs on the four interior cells of a 4x4      *)
(* grid, and callers of step and set_models.                               *)
(***************************************************************************)
\* MeshSimulation(4, 4, cat_count=1, dog_count=2)
PackArguments ==
    { [width |-> 4, height |-> 4, cat_count |-> 1, dog_count |-> 2,
       reward_tiles |-> <<>>, positive_reward_count |-> 0,
       negative_reward_count |-> 0, positive_reward_value |-> 5,
       negative_reward_value |-> -5] }

\* The mappings handed to set_models: the dogs' policies point at each other
\* along a row, or along a column with the cat's policy across.
PackMappings ==
    { << <<"dog-1", ValuedModel(MOVE_RIGHT, 1)>>, <<"dog-2", ValuedModel(MOVE_LEFT, 1)>> >>,
      << <<"cat-1", ValuedModel(MOVE_RIGHT, 1)>>,
         <<"dog-1", ValuedModel(MOVE_BACKWARD, 1)>>,
         <<"dog-2", ValuedModel(MOVE_FORWARD, 1)>> >> }

InitPack == Constructed(PackArguments, SimDraws)

StepPack == StepUntil(MaxTick)

SetModelsPack == SetModelsAmong(PackMappings)

NextPack == StepPack \/ SetModelsPack

SpecPack == InitPack /\ [][NextPack]_vars

(***************************************************************************)
(* SpecStuck: a cat and a dog whose environment has its surroundings_for   *)
(* patched, as the repository's test of the alert does, and callers of     *)
(* step and set_models.                                                    *)
(***************************************************************************)
\* MeshSimulation(4, 4, cat_count=1, dog_count=1)
StuckArguments ==
    { [width |-> 4, height |-> 4, cat_count |-> 1, dog_count |-> 1,
       reward_tiles |-> <<>>, positive_reward_count |-> 0,
       negative_reward_count |-> 0, positive_reward_value |-> 5,
       negative_reward_value |-> -5] }

\* The values surroundings_for is patched to return: no legal action, and
\* MOVE_RIGHT as the only legal action.
PatchValues ==
    { Surroundings(FALSE, FALSE, FALSE, FALSE, FALSE, FALSE, FALSE),
      Surroundings(FALSE, FALSE, FALSE, TRUE, FALSE, FALSE, FALSE) }

\* Models trained on the states as the environment encodes them when the
\* call is made.
StuckMappings ==
    { << <<"cat-1", ValuedModel(MOVE_RIGHT, 1)>>, <<"dog-1", ValuedModel(MOVE_RIGHT, 1)>> >> }

\* with patch.object(simulation._environment, "surroundings_for",
\*                   return_value=value):
PatchSurroundings ==
    /\ patched = <<>>
    /\ \E value \in PatchValues :
          /\ patched' = <<value>>
          /\ call' = [op |-> "patch.object", value |-> value]
    /\ ret' = [raised |-> FALSE, pending |-> FALSE]
    /\ turns' = <<>>
    /\ UNCHANGED <<width, height, rewards, node_states, cats, dogs, reward_tiles,
                   alerts, models, tick, rng, agent, manager>>

\* The end of the with block.
Unpatch ==
    /\ patched # <<>>
    /\ patched' = <<>>
    /\ call' = [op |-> "patch.object.__exit__"]
    /\ ret' = [raised |-> FALSE, pending |-> FALSE]
    /\ turns' = <<>>
    /\ UNCHANGED <<width, height, rewards, node_states, cats, dogs, reward_tiles,
                   alerts, models, tick, rng, agent, manager>>

InitStuck == Constructed(StuckArguments, SimDraws)

StepStuck == StepUntil(MaxTick + 1)

SetModelsStuck == SetModelsAmong(StuckMappings)

NextStuck == StepStuck \/ SetModelsStuck \/ PatchSurroundings \/ Unpatch

SpecStuck == InitStuck /\ [][NextStuck]_vars

(***************************************************************************)
(* SpecBattery: a cat alone on the one interior cell of a 3x3 grid, its    *)
(* battery drained by the most a tick can take, and a caller that keeps    *)
(* calling step until the battery is empty.                                *)
(***************************************************************************)
DrainMax == 35

\* The ticks it takes to empty a battery of BatteryMin at DrainMax a tick,
\* and one more.
BatteryTicks == 179

\* MeshSimulation(3, 3, cat_count=1, dog_count=0)
BatteryArguments ==
    { [width |-> 3, height |-> 3, cat_count |-> 1, dog_count |-> 0,
       reward_tiles |-> <<>>, positive_reward_count |-> 0,
       negative_reward_count |-> 0, positive_reward_value |-> 5,
       negative_reward_value |-> -5] }

BatteryDraws ==
    [drain |-> {DrainMax}, battery |-> {BatteryMin}, efficiency |-> {EfficiencyMin}]

InitBattery == Constructed(BatteryArguments, BatteryDraws)

StepBattery == StepUntil(BatteryTicks)

NextBattery == StepBattery

SpecBattery == InitBattery /\ [][NextBattery]_vars

(***************************************************************************)
(* SpecBuild: callers of MeshSimulation(...) with arguments the grid can   *)
(* hold, arguments it cannot, and arguments the checks reject.             *)
(***************************************************************************)
\* The arguments of a MeshSimulation(width, height, cat_count=..., ...) call.
Arguments(w, h, cat_count, dog_count, explicit_tiles, positive, negative) ==
    [width |-> w, height |-> h, cat_count |-> cat_count, dog_count |-> dog_count,
     reward_tiles |-> explicit_tiles, positive_reward_count |-> positive,
     negative_reward_count |-> negative, positive_reward_value |-> 5,
     negative_reward_value |-> -5]

\* Two cats and a dog with three tiles; the four interior cells filled with
\* agents; five agents, and five tiles, for four cells; two agents for the
\* one cell of a 3x3 grid; a tile on the border and a tile given twice; a
\* grid too small, a negative count and more agents than cells.
BuildArguments ==
    { Arguments(4, 4, 2, 1, << <<1, 1, 3>> >>, 1, 1),
      Arguments(4, 4, 3, 1, <<>>, 0, 0),
      Arguments(4, 4, 3, 2, <<>>, 0, 0),
      Arguments(4, 4, 1, 0, <<>>, 3, 2),
      Arguments(3, 3, 1, 1, <<>>, 0, 0),
      Arguments(4, 4, 1, 1, << <<0, 1, 3>> >>, 0, 0),
      Arguments(4, 4, 1, 1, << <<1, 1, 3>>, <<1, 1, 4>> >>, 0, 0),
      Arguments(2, 4, 1, 1, <<>>, 0, 0),
      Arguments(4, 4, -1, 1, <<>>, 0, 0),
      Arguments(3, 3, 3, 7, <<>>, 0, 0) }

\* Before the call there is no simulation.
InitBuild ==
    /\ width = 0
    /\ height = 0
    /\ rewards = EmptyDict
    /\ node_states = EmptyDict
    /\ patched = <<>>
    /\ agent = NoAgent
    /\ manager = NoManager
    /\ NoSimulation
    /\ call = NoCall
    /\ ret = NoReturn

\* MeshSimulation(...) for arguments among those given: the checks of the
\* arguments, then the placing of tiles and agents on the new grid.
ConstructAmong(arguments, draws) ==
    /\ call.op = "init"
    /\ \E args \in arguments :
          /\ call' = [op |-> "MeshSimulation", args |-> args]
          /\ IF ArgumentsRejected(args)
             THEN /\ ret' = [raised |-> TRUE, error |-> "ValueError", pending |-> FALSE]
                  /\ UNCHANGED <<width, height, rewards, reward_tiles, cats, dogs, rng>>
             ELSE /\ width' = args.width
                  /\ height' = args.height
                  /\ rng' = draws
                  /\ \E world \in Construct(args)' :
                        IF world.raised
                        THEN /\ ret' = [raised |-> TRUE, error |-> world.error,
                                        pending |-> FALSE]
                             /\ UNCHANGED <<rewards, reward_tiles, cats, dogs>>
                        ELSE /\ ret' = [raised |-> FALSE, pending |-> FALSE]
                             /\ reward_tiles' = world.reward_tiles
                             /\ rewards' = world.rewards
                             /\ cats' = world.cats
                             /\ dogs' = world.dogs
    /\ UNCHANGED <<node_states, patched, alerts, models, tick, turns, agent, manager>>

ConstructSimulation == ConstructAmong(BuildArguments, SimDraws)

NextBuild == ConstructSimulation

SpecBuild == InitBuild /\ [][NextBuild]_vars

(***************************************************************************)
(* SpecLearn: a QLearningAgent made with a learning rate of 0.5 or 1.0 and  *)
(* a discount factor of 0.5, asked for choices and taught                   *)
(* transitions between the two states of the repository's test.            *)
(***************************************************************************)
LearningRates == {RateUnit \div 2, RateUnit}

DiscountFactors == {RateUnit \div 2}

LearnStates == {10, 20}

LearnActions == {DO_WORK, MOVE_RIGHT}

LearnRewards == {5, -1}

\* next_available_actions: omitted, empty, and both actions.
LearnNextActions ==
    { [given |-> FALSE],
      [given |-> TRUE, actions |-> <<>>],
      [given |-> TRUE, actions |-> <<DO_WORK, MOVE_RIGHT>>] }

InitLearn ==
    /\ width = 0
    /\ height = 0
    /\ rewards = EmptyDict
    /\ node_states = EmptyDict
    /\ patched = <<>>
    /\ NoSimulation
    /\ agent \in {NewAgent(learning_rate, discount_factor) :
                     learning_rate \in LearningRates,
                     discount_factor \in DiscountFactors}
    /\ manager = NoManager
    /\ call = NoCall
    /\ ret = NoReturn

\* The number of learn calls made on the agent.
Learned == IF call.op = "init" THEN 0 ELSE call.nth

\* agent.learn(state, action, reward, next_state, next_available_actions)
Learn ==
    /\ agent.kind = "QLearningAgent"
    /\ Learned < MaxLearns
    /\ \E state \in LearnStates, action \in LearnActions, reward \in LearnRewards,
          next_state \in LearnStates, next_available_actions \in LearnNextActions :
          /\ call' = [op |-> "QLearningAgent.learn", nth |-> Learned + 1,
                      args |-> [state |-> state, action |-> action,
                                reward |-> reward, next_state |-> next_state,
                                next_available_actions |-> next_available_actions]]
          /\ agent' = learn(agent, state, action, reward, next_state,
                            next_available_actions)
    /\ ret' = [raised |-> FALSE, pending |-> FALSE]
    /\ UNCHANGED <<width, height, rewards, node_states, cats, dogs, reward_tiles,
                   alerts, models, tick, rng, turns, patched, manager>>

\* The candidate lists handed to choose_action: none, the two taught actions
\* in either order, and a list opening with an action never taught.
ChooseCandidates ==
    { <<>>, <<DO_WORK, MOVE_RIGHT>>, <<MOVE_RIGHT, DO_WORK>>,
      <<STOP, MOVE_RIGHT, DO_WORK>> }

\* exploration_rate: 0.0, 0.5 and a rate out of range.
ExplorationRates == {0, 50, 150}

\* agent.choose_action(state, available_actions, exploration_rate)
ChooseAction ==
    /\ agent.kind = "QLearningAgent"
    /\ \E state \in LearnStates, candidates \in ChooseCandidates,
          exploration_rate \in ExplorationRates :
          /\ call' = [op |-> "QLearningAgent.choose_action", nth |-> Learned,
                      args |-> [state |-> state,
                                available_actions |-> candidates,
                                exploration_rate |-> exploration_rate]]
          /\ \E r \in choose_action(agent, state, candidates,
                                     exploration_rate) :
                ret' = IF r.raised
                       THEN [raised |-> TRUE, error |-> r.error, pending |-> FALSE]
                       ELSE [raised |-> FALSE, pending |-> FALSE, value |-> r.value]
    /\ UNCHANGED <<width, height, rewards, node_states, cats, dogs, reward_tiles,
                   alerts, models, tick, rng, turns, patched, agent, manager>>

NextLearn == Learn \/ ChooseAction

SpecLearn == InitLearn /\ [][NextLearn]_vars

(***************************************************************************)
(* SpecRun: a whole run of one cat and one dog on a 4x4 grid under every   *)
(* external call: step, set_models, add_reward_tile and snapshot.          *)
(***************************************************************************)
RunArguments == { Arguments(4, 4, 1, 1, <<>>, 0, 0) }

\* The mappings handed to set_models: none, a model for the dog that moves
\* it, one that has it work where it stands, and a model for each agent.
RunMappings ==
    { <<>>,
      << <<"dog-1", PolicyModel(MOVE_LEFT)>> >>,
      << <<"dog-1", PolicyModel(DO_WORK)>> >>,
      << <<"cat-1", PolicyModel(MOVE_RIGHT)>>, <<"dog-1", PolicyModel(MOVE_LEFT)>> >> }

\* The tiles handed to add_reward_tile: a positive tile, a negative tile and
\* a tile on the border.
RunEdits ==
    { <<GridLocation(1, 1), IntArg(4)>>,
      <<GridLocation(2, 2), IntArg(-2)>>,
      <<GridLocation(0, 0), IntArg(1)>> }

InitRun == Constructed(RunArguments, SimDraws)

StepRun == StepUntil(MaxTick)

SetModelsRun == SetModelsAmong(RunMappings)

AddRewardTileRun == AddRewardTileAmong(RunEdits)

NextRun == StepRun \/ SetModelsRun \/ AddRewardTileRun \/ Snapshot

SpecRun == InitRun /\ [][NextRun]_vars

(***************************************************************************)
(* BackgroundTaskManager (api/tasks.py) on asyncio's single thread: a       *)
(* coroutine runs from one await that suspends it to the next, and the      *)
(* coroutines that are ready run in any order.  An optional value is a      *)
(* sequence, empty for None.  SpecTasks: two task identifiers, a service    *)
(* that returns or raises as the stubs of the repository's tests do, and    *)
(* one waiter for each identifier, with a timeout or without.               *)
(***************************************************************************)
\* TaskInfo(metadata=...)
TaskInfo(metadata) ==
    [metadata |-> metadata, status |-> "pending", result |-> <<>>, error |-> <<>>,
     completion_event |-> FALSE]

\* TaskInfo.snapshot, without its timestamps
task_snapshot(task) ==
    [status |-> task.status, metadata |-> task.metadata, result |-> task.result,
     error |-> task.error]

mark_processing(task) == [task EXCEPT !.status = "processing"]

mark_completed(task, result) ==
    [task EXCEPT !.status = "completed", !.result = <<result>>,
                 !.completion_event = TRUE]

mark_failed(task, message) ==
    [task EXCEPT !.status = "failed", !.error = <<message>>,
                 !.completion_event = TRUE]

\* uuid4().hex
TaskIds == {"t1", "t2"}

\* What generate does: it returns a result or raises an exception.
ServiceOutcomes ==
    { [raised |-> FALSE, value |-> "size-19"], [raised |-> TRUE, value |-> "boom"] }

\* BackgroundTaskManager(image_service=...)
InitTasks ==
    /\ width = 0
    /\ height = 0
    /\ rewards = EmptyDict
    /\ node_states = EmptyDict
    /\ patched = <<>>
    /\ NoSimulation
    /\ agent = NoAgent
    /\ manager = [kind |-> "BackgroundTaskManager", tasks |-> EmptyDict,
                  runners |-> EmptyDict, waiters |-> EmptyDict]
    /\ call = NoCall
    /\ ret = NoReturn

task_frame == <<width, height, rewards, node_states, cats, dogs, reward_tiles,
                alerts, models, tick, rng, call, ret, turns, patched, agent>>

\* create_task: the task is stored and _run_task scheduled.
CreateTask ==
    /\ \E task_id \in TaskIds \ DOMAIN manager.tasks :
          manager' = [manager EXCEPT
                         !.tasks = Put(@, task_id, TaskInfo("hello")),
                         !.runners = Put(@, task_id, [pc |-> "scheduled"])]
    /\ UNCHANGED task_frame

\* _run_task up to its await of generate.
RunTaskStart ==
    /\ \E task_id \in DOMAIN manager.runners :
          /\ manager.runners[task_id].pc = "scheduled"
          /\ manager' = [manager EXCEPT
                            !.tasks[task_id] = mark_processing(@),
                            !.runners[task_id] = [pc |-> "generate"]]
    /\ UNCHANGED task_frame

\* _run_task from the end of generate: the except and else branches.
RunTaskFinish ==
    /\ \E task_id \in DOMAIN manager.runners, outcome \in ServiceOutcomes :
          /\ manager.runners[task_id].pc = "generate"
          /\ manager' = [manager EXCEPT
                            !.tasks[task_id] =
                                IF outcome.raised THEN mark_failed(@, outcome.value)
                                ELSE mark_completed(@, outcome.value),
                            !.runners[task_id] = [pc |-> "done", outcome |-> outcome]]
    /\ UNCHANGED task_frame

\* Mutant of wait_for_completion: the snapshot is taken without the wait.
wait_for_completion_unawaited(tasks, task_id, timeout) ==
    IF task_id \notin DOMAIN tasks
    THEN [pc |-> "raised", error |-> "KeyError"]
    ELSE [pc |-> "returned", value |-> task_snapshot(tasks[task_id])]

\* wait_for_completion up to its await: _get_task, then the event's wait(),
\* which does not suspend when the event is set.
wait_for_completion(tasks, task_id, timeout) ==
    IF task_id \notin DOMAIN tasks
    THEN [pc |-> "raised", error |-> "KeyError"]
    ELSE IF tasks[task_id].completion_event
    THEN [pc |-> "returned", value |-> task_snapshot(tasks[task_id])]
    ELSE [pc |-> "wait", timeout |-> timeout]

\* await manager.wait_for_completion(task_id, timeout=...)
WaitForCompletion ==
    /\ \E task_id \in TaskIds \ DOMAIN manager.waiters, timeout \in {<<>>, <<1>>} :
          manager' = [manager EXCEPT
                         !.waiters = Put(@, task_id,
                                         wait_for_completion(manager.tasks, task_id,
                                                             timeout))]
    /\ UNCHANGED task_frame

\* The waiter resumes once the event is set: return task.snapshot()
WaitResume ==
    /\ \E task_id \in DOMAIN manager.waiters :
          /\ manager.waiters[task_id].pc = "wait"
          /\ manager.tasks[task_id].completion_event
          /\ manager' = [manager EXCEPT
                            !.waiters[task_id] =
                                [pc |-> "returned",
                                 value |-> task_snapshot(manager.tasks[task_id])]]
    /\ UNCHANGED task_frame

\* asyncio.wait_for gives up on the event when the timeout runs out.
WaitTimeout ==
    /\ \E task_id \in DOMAIN manager.waiters :
          /\ manager.waiters[task_id].pc = "wait"
          /\ manager.waiters[task_id].timeout # <<>>
          /\ ~manager.tasks[task_id].completion_event
          /\ manager' = [manager EXCEPT
                            !.waiters[task_id] =
                                [pc |-> "raised", error |-> "TimeoutError"]]
    /\ UNCHANGED task_frame

NextTasks ==
    \/ CreateTask \/ RunTaskStart \/ RunTaskFinish
    \/ WaitForCompletion \/ WaitResume \/ WaitTimeout

SpecTasks == InitTasks /\ [][NextTasks]_vars

(***************************************************************************)
(* SpecDog: one dog, no cat and no model, and a caller that keeps calling  *)
(* step until DogTicks ticks have passed.                                  *)
(***************************************************************************)
DogTicks == 10

\* MeshSimulation(width=5, height=5, cat_count=0, dog_count=1)
DogArguments ==
    { [width |-> 5, height |-> 5, cat_count |-> 0, dog_count |-> 1,
       reward_tiles |-> <<>>, positive_reward_count |-> 0,
       negative_reward_count |-> 0, positive_reward_value |-> 5,
       negative_reward_value |-> -5] }

InitDog == Constructed(DogArguments, SimDraws)

StepDog == StepUntil(DogTicks)

NextDog == StepDog

\* The loop over step() does not stop before its last iteration.
SpecDog == InitDog /\ [][NextDog]_vars /\ WF_vars(StepDog)

(***************************************************************************)
(* Claims about the value types (SpecPure).                                *)
(***************************************************************************)
\* Bit i of a non-negative integer.
Bit(v, i) == (v \div 2^i) % 2

\* A cell is in bounds for a grid of width w when its column is below w.
InGridOfWidth(c, w) == 0 <= c.x /\ c.x < w /\ 0 <= c.y

\* The Surroundings a location of some grid can have: work, stop and help legal.
GridSurroundings ==
    {s \in AllSurroundings : s.can_do_work /\ s.can_stop /\ s.can_call_for_help}

\* C8: encode_state is injective for a fixed grid: the code of an in-bounds
\* (location, surroundings) pair is the code of no other in-bounds pair a grid
\* location can have, and the codes of two interior locations differ.
C8_EncodeInjective ==
    /\ (call.op = "encode" /\ call.grid_width > 0
            /\ InGridOfWidth(call.location, call.grid_width))
        => \A c2 \in GridCells, s2 \in GridSurroundings :
              (/\ InGridOfWidth(c2, call.grid_width)
               /\ <<c2, s2>> # <<call.location, call.surroundings>>)
              => NodeState_encode(c2, s2, call.grid_width).value # ret.value
    /\ (call.op = "encode_state" /\ ~ret.raised)
        => \A c2 \in InteriorCells :
              c2 # call.location => encode_state(c2).value # ret.value

\* C8 witness: the pair of an interior location and its own surroundings was
\* encoded for the grid's width, and another pair has the same surroundings.
C8_Witness ==
    /\ call.op = "encode"
    /\ call.grid_width = width
    /\ is_passable(call.location)
    /\ call.surroundings = surroundings_for(call.location)
    /\ ~ret.raised
    /\ ret.value = encode_state(call.location).value
    /\ \E c2 \in InteriorCells :
          /\ c2 # call.location
          /\ NodeState_encode(c2, call.surroundings, width).value # ret.value

\* The weight the contract gives each legal action: 2^i for action i.
MaskWeight(s) ==
    (IF s.can_move_forward THEN 1 ELSE 0) + (IF s.can_move_backward THEN 2 ELSE 0)
    + (IF s.can_move_left THEN 4 ELSE 0) + (IF s.can_move_right THEN 8 ELSE 0)
    + (IF s.can_do_work THEN 16 ELSE 0) + (IF s.can_stop THEN 32 ELSE 0)
    + (IF s.can_call_for_help THEN 64 ELSE 0)

\* C9: NodeState.encode(grid_width) is (y * grid_width + x) * 2^7 + mask, a
\* non-negative integer; location (1,1), width 5, mask 63 gives 831.
C9_EncodeFormula ==
    (call.op = "encode" /\ call.grid_width > 0)
    => /\ ~ret.raised
       /\ ret.value = (call.location.y * call.grid_width + call.location.x) * 128
                        + MaskWeight(call.surroundings)
       /\ ret.value >= 0
       /\ (/\ call.location = GridLocation(1, 1)
           /\ call.grid_width = 5
           /\ MaskWeight(call.surroundings) = 63) => ret.value = 831

\* C9 witness: the tested encoding, (1,1) in a grid of width 5 with mask 63.
C9_Witness ==
    /\ call.op = "encode"
    /\ call.location = GridLocation(1, 1)
    /\ call.grid_width = 5
    /\ call.surroundings = Surroundings(TRUE, TRUE, TRUE, TRUE, TRUE, TRUE, FALSE)
    /\ ret = Return(831)

\* The flag of action i in a Surroundings value.
Legal(s, i) == SurroundingsFlags(s)[i + 1]

StrictlyAscending(list) == \A i \in 1..(Len(list) - 1) : list[i] < list[i + 1]

\* C10: bit i of action_mask() is set iff action i is in available_actions(),
\* which lists the legal actions in ascending enum order without repeats
\* (forward, left, work, stop, help legal gives mask 117).
C10_MaskMatchesActions ==
    /\ call.op = "action_mask"
        => /\ \A i \in Action :
                (Bit(ret.value, i) = 1)
                    <=> InList(i, available_actions(call.surroundings))
           /\ ret.value < 2^NumActions
           /\ call.surroundings
                = Surroundings(TRUE, FALSE, TRUE, FALSE, TRUE, TRUE, TRUE)
              => ret.value = 117
    /\ call.op = "available_actions"
        => /\ StrictlyAscending(ret.value)
           /\ \A i \in Action :
                InList(i, ret.value) <=> Legal(call.surroundings, i)
           /\ \A k \in 1..Len(ret.value) : ret.value[k] \in Action
           /\ \A i \in Action :
                InList(i, ret.value) <=> (Bit(action_mask(call.surroundings), i) = 1)

\* C10 witness: the tested Surroundings gave mask 117.
C10_Witness ==
    /\ call.op = "action_mask"
    /\ call.surroundings = Surroundings(TRUE, FALSE, TRUE, FALSE, TRUE, TRUE, TRUE)
    /\ ret = Return(117)


(***************************************************************************)
(* Claims about GridWorldEnvironment.step (SpecEnv).                       *)
(***************************************************************************)
\* The last call was step with an action of the enumeration.
StepWithAction == call.op = "step" /\ call.arg.is_int /\ call.arg.value \in Action

\* The location step resolves the node at: the recorded one for a known
\* identifier, the caller's for a new one.
ResolvedLocation ==
    IF call.node.identifier \in DOMAIN call.before
    THEN call.before[call.node.identifier].location
    ELSE call.node.location

\* The grid delta the contract gives each movement action.
ContractDelta(a) ==
    CASE a = MOVE_FORWARD -> <<0, -1>>
      [] a = MOVE_BACKWARD -> <<0, 1>>
      [] a = MOVE_LEFT -> <<-1, 0>>
      [] a = MOVE_RIGHT -> <<1, 0>>
      [] OTHER -> <<0, 0>>

ContractDestination(l, a) ==
    GridLocation(l.x + ContractDelta(a)[1], l.y + ContractDelta(a)[2])

StoredReward(l) ==
    IF <<l.x, l.y>> \in DOMAIN rewards THEN rewards[<<l.x, l.y>>] ELSE 0

\* C3: an action absent from the available actions of the location step
\* resolves the node at returns (the state of that location, the node at that
\* location, -1, false) and the recorded location stays that location.
C3_UnavailablePenalised ==
    (/\ StepWithAction
     /\ is_passable(ResolvedLocation)
     /\ ~InList(call.arg.value, available_actions(surroundings_for(ResolvedLocation))))
    => /\ ~ret.raised
       /\ ret.state = encode_state(ResolvedLocation).value
       /\ ret.node.location = ResolvedLocation
       /\ ret.node.identifier = call.node.identifier
       /\ ret.reward = -1
       /\ ret.done = FALSE
       /\ node_states[call.node.identifier].location = ResolvedLocation

\* C3 witness: MOVE_FORWARD from (1,1), whose destination is a border cell.
C3_Witness ==
    /\ StepWithAction
    /\ call.arg.value = MOVE_FORWARD
    /\ ResolvedLocation = GridLocation(1, 1)
    /\ ~ret.raised
    /\ ret.reward = -1
    /\ ret.node.location = GridLocation(1, 1)

\* C4 as claimed: step(node, STOP) returns done = true and reward 0 wherever
\* the node is, and leaves the location unchanged.
C4_StopAnywhere ==
    (StepWithAction /\ call.arg.value = STOP)
    => /\ ~ret.raised
       /\ ret.done = TRUE
       /\ ret.reward = 0
       /\ ret.node.location = ResolvedLocation

\* C4 amended: step(node, STOP) returns done = true and reward 0 and leaves the
\* location unchanged whenever the location it resolves the node at is
\* strictly inside the border; on the border or outside the grid it raises.
C4_StopTerminalInside ==
    (StepWithAction /\ call.arg.value = STOP)
    => IF is_passable(ResolvedLocation)
       THEN /\ ~ret.raised
            /\ ret.done = TRUE
            /\ ret.reward = 0
            /\ ret.node.location = ResolvedLocation
            /\ node_states[call.node.identifier].location = ResolvedLocation
       ELSE ret.raised /\ ret.error = "ValueError"

\* C4 witness: STOP on a cell that carries a reward returned done with reward 0.
C4_Witness ==
    /\ StepWithAction
    /\ call.arg.value = STOP
    /\ StoredReward(ResolvedLocation) # 0
    /\ ~ret.raised
    /\ ret.done = TRUE
    /\ ret.reward = 0

\* C5 as claimed: step never rejects a structurally valid call: a node at an
\* interior location and an action integer in 0..6 get an outcome, no error.
C5_NeverRejectsValidCall ==
    (StepWithAction /\ is_passable(call.node.location)) => ~ret.raised

\* C6: for a recorded identifier step applies the action at the recorded
\* location and takes only battery level and compute efficiency from the
\* caller; the stale node at (2,2) stepped MOVE_FORWARD then MOVE_RIGHT ends
\* at (3,1).
C6_ResumesFromRecorded ==
    (/\ StepWithAction
     /\ call.node.identifier \in DOMAIN call.before
     /\ is_passable(call.before[call.node.identifier].location))
    => LET recorded == call.before[call.node.identifier]
           a == call.arg.value
           target == ContractDestination(recorded.location, a)
       IN  /\ ~ret.raised
           /\ ret.node.location
                = (IF is_passable(target) THEN target ELSE recorded.location)
           /\ ret.node.battery_level = call.node.battery_level
           /\ ret.node.compute_efficiency_flops_per_milliamp
                = call.node.compute_efficiency_flops_per_milliamp
           /\ ret.node.identifier = call.node.identifier
           /\ node_states[call.node.identifier] = ret.node
           /\ (/\ recorded.location = GridLocation(2, 1)
               /\ call.node.location = GridLocation(2, 2)
               /\ a = MOVE_RIGHT) => ret.node.location = GridLocation(3, 1)

\* C6 witness: the stale node at (2,2), recorded at (2,1), stepped MOVE_RIGHT.
C6_Witness ==
    /\ StepWithAction
    /\ call.arg.value = MOVE_RIGHT
    /\ call.node.location = GridLocation(2, 2)
    /\ call.node.identifier \in DOMAIN call.before
    /\ call.before[call.node.identifier].location = GridLocation(2, 1)
    /\ ~ret.raised
    /\ ret.node.location = GridLocation(3, 1)

\* C7: a legal movement relocates the node by the action's delta, returns the
\* reward stored at the destination (0 if none), done = false and the state of
\* the destination, which differs from the state of the origin.
C7_LegalMoveRelocates ==
    (/\ StepWithAction
     /\ call.arg.value \in {MOVE_FORWARD, MOVE_BACKWARD, MOVE_LEFT, MOVE_RIGHT}
     /\ is_passable(ResolvedLocation)
     /\ InList(call.arg.value, available_actions(surroundings_for(ResolvedLocation))))
    => LET target == ContractDestination(ResolvedLocation, call.arg.value)
       IN  /\ ~ret.raised
           /\ ret.node.location = target
           /\ ret.reward = StoredReward(target)
           /\ ret.done = FALSE
           /\ ret.state = encode_state(target).value
           /\ ret.state # encode_state(ResolvedLocation).value
           /\ node_states[call.node.identifier].location = target

\* C7 witness: the tested move, MOVE_FORWARD from (2,2) to (2,1) worth 5.
C7_Witness ==
    /\ StepWithAction
    /\ call.arg.value = MOVE_FORWARD
    /\ call.node.identifier \notin DOMAIN call.before
    /\ call.node.location = GridLocation(2, 2)
    /\ ~ret.raised
    /\ ret.node.location = GridLocation(2, 1)
    /\ ret.reward = 5
    /\ ret.done = FALSE

(***************************************************************************)
(* Claims about MeshSimulation (Spec).                                     *)
(***************************************************************************)
\* The agents of both groups, cats first.
AllAgents == cats \o dogs

AfterTick == call.op = "simulation.step" /\ ~ret.raised

Moved(turn) == turn.from # turn.to

\* C1: after every MeshSimulation.step, from any state reached by step,
\* set_models and add_reward_tile calls, the positions of all agents of both
\* groups are pairwise distinct; no two agents share a cell, two agents of one
\* group included.
C1_NoSharedCell ==
    AfterTick =>
        \A i, j \in 1..Len(AllAgents) :
            i # j => AllAgents[i].location # AllAgents[j].location

\* C2: after construction and after any number of MeshSimulation.step calls,
\* every cat and every dog is strictly inside the border: 0 < x < width - 1
\* and 0 < y < height - 1.
C2_AgentsInside ==
    \A i \in 1..Len(AllAgents) :
        /\ 0 < AllAgents[i].location.x /\ AllAgents[i].location.x < width - 1
        /\ 0 < AllAgents[i].location.y /\ AllAgents[i].location.y < height - 1

\* C2 witness: the last tick of a run in which a cat and the dog both moved to
\* a neighbouring cell.
C2_Witness ==
    /\ AfterTick
    /\ tick = MaxTick
    /\ \E i, j \in 1..Len(turns) :
          /\ turns[i].agent_type = "cat" /\ Moved(turns[i])
          /\ turns[j].agent_type = "dog" /\ Moved(turns[j])
    /\ C2_AgentsInside

(***************************************************************************)
(* Claims about reward tiles (SpecTiles)                                   *)
(***************************************************************************)
TileAdded == call.op = "add_reward_tile" /\ ~ret.raised

TilesAt(location) == {i \in 1..Len(reward_tiles) : reward_tiles[i].location = location}

\* C11: when add_reward_tile(L, v) returns for an interior L, reward_at(L) is
\* v, the snapshot holds a tile at L worth v and none at L of another value,
\* whatever L held before the call.
C11_AddRewardTileReplaces ==
    TileAdded =>
        /\ reward_at(rewards, call.location) = call.value.value
        /\ \E i \in 1..Len(reward_tiles) :
               snapshot([cats |-> cats, dogs |-> dogs, reward_tiles |-> reward_tiles,
                         alerts |-> alerts, tick |-> tick, node_states |-> node_states,
                         rewards |-> rewards]).value.rewards[i]
                   = RewardTile(call.location, call.value.value)
        /\ \A i \in TilesAt(call.location) : reward_tiles[i].value = call.value.value

\* add_reward_tile((2,2), -2) returned before any tick, and the tile it set
\* sits second in the list, where __init__ or an earlier call had put a tile.
C11_Witness ==
    /\ TileAdded
    /\ tick = 0
    /\ call.location = GridLocation(2, 2)
    /\ call.value = IntArg(-2)
    /\ Len(reward_tiles) = 2
    /\ reward_tiles[2] = RewardTile(GridLocation(2, 2), -2)

\* C12: in every state reached from construction by add_reward_tile and step
\* calls, no two tiles of the reward-tile list share a location and every
\* tile lies strictly inside the border.
C12_OneInteriorTilePerCell ==
    \A i, j \in 1..Len(reward_tiles) :
        /\ is_interior(reward_tiles[i].location)
        /\ reward_tiles[i].location = reward_tiles[j].location => i = j

\* Two ticks have passed and add_reward_tile has just returned with three
\* tiles on the grid: the explicit one, the generated one and the added one.
C12_Witness ==
    /\ TileAdded
    /\ tick >= 2
    /\ Len(reward_tiles) = 3

\* C13: add_reward_tile with a location on the border or outside the grid
\* raises, and the reward-tile list and the environment's reward map are
\* after the call what they were before it.
C13_RejectedTileChangesNothing ==
    [][(call'.op = "add_reward_tile" /\ ~is_interior(call'.location)) =>
          /\ ret'.raised
          /\ reward_tiles' = reward_tiles
          /\ rewards' = rewards]_vars

\* add_reward_tile((4, 1), 1), a cell outside the 4x4 grid, raised ValueError
\* on a simulation that holds tiles.
C13_Witness ==
    /\ call.op = "add_reward_tile"
    /\ ~within_bounds(call.location)
    /\ ret.raised
    /\ ret.error = "ValueError"
    /\ Len(reward_tiles) >= 2

C14_CatHarvestsTile ==
    [][call'.op = "simulation.step" =>
          \A i \in 1..Len(turns') :
              (/\ turns'[i].agent_type = "cat"
               /\ turns'[i].path # "idle"
               /\ reward_at(rewards, turns'[i].from) > 0) =>
                  /\ turns'[i].steps = <<DO_WORK>>
                  /\ turns'[i].to = turns'[i].from
                  /\ turns'[i].state_update
                  /\ reward_at(rewards', turns'[i].from) = 0
                  /\ \A k \in 1..Len(reward_tiles') :
                         reward_tiles'[k].location # turns'[i].from]_vars

\* The cat, registered with a model whose policy is MOVE_RIGHT, harvested
\* the tile worth 3 at (1, 1).
C14_Witness ==
    /\ AfterTick
    /\ "cat-1" \in DOMAIN models
    /\ policy(models["cat-1"], encode_state(GridLocation(1, 1)).value) = MOVE_RIGHT
    /\ \E i \in 1..Len(turns) :
           /\ turns[i].path = "harvest"
           /\ turns[i].from = GridLocation(1, 1)
           /\ turns[i].reward = 3
    /\ reward_tiles = <<>>

\* C15: set_models(mapping) with every key a string that holds a character
\* other than whitespace and every value a QLearningAgent returns with the
\* registry holding exactly the mapping's entries; with an empty or
\* whitespace-only key or a value of another kind it raises and the registry
\* is what it was before the call.
C15_SetModelsAtomic ==
    [][call'.op = "set_models" =>
          LET items == call'.items
              valid == \A i \in 1..Len(items) :
                          /\ items[i][1] \notin {"", " "}
                          /\ items[i][2].kind = "QLearningAgent"
          IN  IF valid
              THEN /\ ~ret'.raised
                   /\ DOMAIN models' = {items[i][1] : i \in 1..Len(items)}
                   /\ \A i \in 1..Len(items) : models'[items[i][1]] = items[i][2]
              ELSE /\ ret'.raised
                   /\ models' = models]_vars

\* set_models raised on the blank identifier that follows a valid entry for
\* dog-1, and the registry still holds the cat's model alone.
C15_Witness ==
    /\ call.op = "set_models"
    /\ ret.raised
    /\ ret.error = "ValueError"
    /\ call.items[1][1] = "dog-1"
    /\ DOMAIN models = {"cat-1"}


\* C15 as stated: every key that is a non-empty string counts as valid, a key
\* of one space included.
C15_NonEmptyKeysAccepted ==
    [][call'.op = "set_models" =>
          LET items == call'.items
              valid == \A i \in 1..Len(items) :
                          /\ items[i][1] # ""
                          /\ items[i][2].kind = "QLearningAgent"
          IN  IF valid
              THEN /\ ~ret'.raised
                   /\ DOMAIN models' = {items[i][1] : i \in 1..Len(items)}
                   /\ \A i \in 1..Len(items) : models'[items[i][1]] = items[i][2]
              ELSE /\ ret'.raised
                   /\ models' = models]_vars


\* The ranking of a turn came from a registered model's policy.
RankedByPolicy(turn) == turn.ranked # <<>> /\ ~turn.requested

\* available_actions() where the turn began
LegalAt(turn) == available_actions(surroundings_for(turn.from))

\* C18: a dog's ranking that comes from a registered model's policy holds
\* STOP only when STOP is the only legal action.
C18_DogRankingWithoutStop ==
    AfterTick =>
        \A i \in 1..Len(turns) :
            (turns[i].agent_type = "dog" /\ RankedByPolicy(turns[i])) =>
                (InList(STOP, turns[i].ranked) => LegalAt(turns[i]) = <<STOP>>)

\* The cells the other agents stand on when the i-th turn of the tick
\* begins: those before it have moved, those after it have not.
OthersAt(ts, i) ==
    {Coordinate(ts[j].to) : j \in 1..(i - 1)} \cup
    {Coordinate(ts[j].from) : j \in (i + 1)..Len(ts)}

\* The adjacent cells a legal movement leads to from where the turn began.
LegalNeighbours(turn) ==
    {translated(turn.from, ACTION_TO_VECTOR[a][1], ACTION_TO_VECTOR[a][2]) :
        a \in {b \in DOMAIN ACTION_TO_VECTOR : InList(b, LegalAt(turn))}}

\* C19: a cat without a registered model that does not roll idle and is not
\* on a positive tile requests a model, issues exactly one environment step,
\* never STOP, and that step moves it to an adjacent legal cell no other
\* agent stands on when there is one, and is DO_WORK otherwise.
C19_UntrainedCatFallsBack ==
    [][(call'.op = "simulation.step" /\ ~ret'.raised) =>
          \A i \in 1..Len(turns') :
              LET turn == turns'[i]
                  free == {c \in LegalNeighbours(turn) :
                              Coordinate(c) \notin OthersAt(turns', i)}
              IN  (/\ turn.agent_type = "cat"
                   /\ turn.identifier \notin DOMAIN models
                   /\ turn.path # "idle"
                   /\ reward_at(rewards, turn.from) <= 0) =>
                      /\ turn.requested
                      /\ Len(turn.steps) = 1
                      /\ turn.steps[1] # STOP
                      /\ IF free # {}
                         THEN turn.steps[1] \in DOMAIN ACTION_TO_VECTOR /\ turn.to \in free
                         ELSE turn.steps = <<DO_WORK>> /\ turn.to = turn.from]_vars

\* The policy of the agent's model where the turn began is a legal movement
\* into a cell no other agent stands on.
PolicyMoveOpen(ts, i) ==
    /\ ts[i].identifier \in DOMAIN models
    /\ LET action == policy(models[ts[i].identifier], encode_state(ts[i].from).value)
       IN  /\ action \in DOMAIN ACTION_TO_VECTOR
           /\ InList(action, LegalAt(ts[i]))
           /\ Coordinate(translated(ts[i].from, ACTION_TO_VECTOR[action][1],
                                    ACTION_TO_VECTOR[action][2])) \notin OthersAt(ts, i)

\* The turn issued one environment step, the policy's action, and the agent
\* stands where that movement leads.
PolicyCommitted(turn) ==
    LET action == policy(models[turn.identifier], encode_state(turn.from).value)
    IN  /\ turn.steps = <<action>>
        /\ turn.to = translated(turn.from, ACTION_TO_VECTOR[action][1],
                                ACTION_TO_VECTOR[action][2])

\* C20: an agent that does not roll idle and is not a cat on a positive tile,
\* with a registered model whose policy for its encoded state is a legal
\* movement into an unoccupied cell, commits exactly that action in the
\* tick, whatever the Q-values of the other legal actions.
C20_PolicyMoveCommitted ==
    [][(call'.op = "simulation.step" /\ ~ret'.raised) =>
          \A i \in 1..Len(turns') :
              (/\ PolicyMoveOpen(turns', i)
               /\ turns'[i].path # "idle"
               /\ ~(turns'[i].agent_type = "cat" /\ reward_at(rewards, turns'[i].from) > 0))
                  => PolicyCommitted(turns'[i])]_vars

\* The cat, whose model values MOVE_FORWARD at -1 and every other action at
\* 0, moved forward from (1, 2) to (1, 1).
C20_Witness ==
    /\ AfterTick
    /\ "cat-1" \in DOMAIN models
    /\ \E i \in 1..Len(turns) :
           /\ turns[i].identifier = "cat-1"
           /\ turns[i].from = GridLocation(1, 2)
           /\ get_q_value(models["cat-1"], encode_state(turns[i].from).value,
                          MOVE_FORWARD) = -1
           /\ turns[i].path = "ranked"
           /\ Head(turns[i].ranked) = MOVE_FORWARD
           /\ turns[i].steps = <<MOVE_FORWARD>>
           /\ turns[i].to = GridLocation(1, 1)

\* C20 as stated: the agent commits the policy's movement in every tick, the
\* ticks it idles in and the ticks a cat harvests in included.
C20_PolicyMoveInEveryTick ==
    [][(call'.op = "simulation.step" /\ ~ret'.raised) =>
          \A i \in 1..Len(turns') :
              PolicyMoveOpen(turns', i) => PolicyCommitted(turns'[i])]_vars

(***************************************************************************)
(* Claims about a dog without a model (SpecDog)                            *)
(***************************************************************************)
\* C17: a dog without a registered model, alone on a 5x5 grid, is within ten
\* step() calls on a cell other than the one it was placed on: one of the
\* ten ticks moves it.
C17_DogLeavesStart ==
    <>(/\ AfterTick
       /\ tick <= DogTicks
       /\ \E i \in 1..Len(turns) : turns[i].agent_type = "dog" /\ Moved(turns[i]))


(***************************************************************************)
(* Claims about the two phases of a tick (SpecPack)                        *)
(***************************************************************************)
\* The cells the dogs stand on during the cat phase of the tick.
DogCellsBefore(ts) ==
    {Coordinate(ts[j].from) : j \in {k \in 1..Len(ts) : ts[k].agent_type = "dog"}}

\* C21: in a tick no cat moves onto a cell a dog stands on, and no dog moves
\* onto a cell that a cat stands on after the cat phase or that another dog
\* stands on when the dog's turn begins.
C21_PhasesKeepApart ==
    [][(call'.op = "simulation.step" /\ ~ret'.raised) =>
          \A i \in 1..Len(turns') :
              Moved(turns'[i]) =>
                  IF turns'[i].agent_type = "cat"
                  THEN Coordinate(turns'[i].to) \notin DogCellsBefore(turns')
                  ELSE Coordinate(turns'[i].to) \notin OthersAt(turns', i)]_vars

\* In one tick the cat moved and a dog, whose policy pointed at the cell of
\* the other dog, moved to another cell.
C21_Witness ==
    /\ AfterTick
    /\ \E i, j, k \in 1..Len(turns) :
           /\ turns[i].agent_type = "cat" /\ Moved(turns[i])
           /\ turns[j].agent_type = "dog" /\ Moved(turns[j])
           /\ turns[k].agent_type = "dog" /\ k # j
           /\ turns[j].identifier \in DOMAIN models
           /\ turns[j].ranked # <<>>
           /\ Head(turns[j].ranked) \in DOMAIN ACTION_TO_VECTOR
           /\ translated(turns[j].from,
                  ACTION_TO_VECTOR[Head(turns[j].ranked)][1],
                  ACTION_TO_VECTOR[Head(turns[j].ranked)][2]) = turns[k].from


\* C22: on a step() whose tick is not a multiple of the dog move interval
\* every dog idles: no environment step is issued for it and it stands after
\* the step where it stood before.
C22_DogsIdleBetweenMoveTicks ==
    [][(call'.op = "simulation.step" /\ ~ret'.raised /\ tick' % DogMoveInterval # 0) =>
          /\ \A i \in 1..Len(turns') :
                 turns'[i].agent_type = "dog" =>
                     /\ turns'[i].path = "idle"
                     /\ turns'[i].steps = <<>>
                     /\ ~Moved(turns'[i])
          /\ Len(dogs') = Len(dogs)
          /\ \A d \in 1..Len(dogs) : dogs'[d].location = dogs[d].location]_vars

\* Tick 2 has passed with both dogs registered with a model, and the tick
\* recorded a turn for each.
C22_Witness ==
    /\ AfterTick
    /\ tick = 2
    /\ {"dog-1", "dog-2"} \subseteq DOMAIN models
    /\ Cardinality({i \in 1..Len(turns) : turns[i].agent_type = "dog"}) = 2


(***************************************************************************)
(* Claims about agents without a viable action (SpecStuck)                 *)
(***************************************************************************)
\* The i-th turn of the tick found no legal action where it began, or ranked
\* actions that are all movements onto cells other agents stand on.
Stuck(ts, i) ==
    \/ LegalAt(ts[i]) = <<>>
    \/ /\ ts[i].ranked # <<>>
       /\ \A k \in 1..Len(ts[i].ranked) :
              /\ ts[i].ranked[k] \in DOMAIN ACTION_TO_VECTOR
              /\ Coordinate(translated(ts[i].from,
                                       ACTION_TO_VECTOR[ts[i].ranked[k]][1],
                                       ACTION_TO_VECTOR[ts[i].ranked[k]][2]))
                     \in OthersAt(ts, i)

\* C24: a dog that does not idle and has no legal action, or no viable action
\* among its ranked actions, gets an alert with a reason under its
\* identifier, requests a model, issues exactly one environment step, STOP,
\* and stays on its cell; a cat in that situation issues no environment
\* step, stays on its cell and gets no alert.
C24_StuckDogAlertsCatHolds ==
    [][(call'.op = "simulation.step" /\ ~ret'.raised) =>
          \A i \in 1..Len(turns') :
              (turns'[i].path # "idle" /\ Stuck(turns', i)) =>
                  IF turns'[i].agent_type = "dog"
                  THEN /\ turns'[i].identifier \in DOMAIN alerts'
                       /\ alerts'[turns'[i].identifier] # ""
                       /\ turns'[i].requested
                       /\ turns'[i].steps = <<STOP>>
                       /\ ~Moved(turns'[i])
                  ELSE /\ turns'[i].identifier \notin DOMAIN alerts'
                       /\ turns'[i].steps = <<>>
                       /\ ~Moved(turns'[i])]_vars

\* With surroundings_for patched to offer no action, the dog passed the idle
\* roll, issued STOP and stands alerted; the cat held position in that tick.
C24_Witness ==
    /\ AfterTick
    /\ patched # <<>>
    /\ "dog-1" \in DOMAIN alerts
    /\ alerts["dog-1"] = "Dog has no available actions"
    /\ \E i, j \in 1..Len(turns) :
           /\ turns[i].identifier = "dog-1"
           /\ turns[i].steps = <<STOP>>
           /\ turns[j].agent_type = "cat"
           /\ turns[j].path = "no_actions"


\* C23: an alert appears only in a turn in which the agent has no viable
\* action, is not removed by a turn in which the agent issues no action, and
\* is gone after a turn in which the agent committed an action.
C23_AlertWhileStuck ==
    [][(call'.op = "simulation.step" /\ ~ret'.raised) =>
          \A i \in 1..Len(turns') :
              LET identifier == turns'[i].identifier
              IN  /\ (identifier \in DOMAIN alerts' /\ identifier \notin DOMAIN alerts)
                         => (turns'[i].path # "idle" /\ Stuck(turns', i))
                  /\ (turns'[i].steps = <<>> /\ identifier \in DOMAIN alerts)
                         => identifier \in DOMAIN alerts'
                  /\ (turns'[i].steps # <<>> /\ ~Stuck(turns', i))
                         => identifier \notin DOMAIN alerts']_vars


\* The entry of a key in a dict, or none.
Entry(d, key) == IF key \in DOMAIN d THEN <<d[key]>> ELSE <<>>

\* C26: the turn of an agent that rolls idle issues no environment step and
\* leaves the agent's location, its alert and its record in the environment
\* as they were, and the model registry too; a tick in which every agent
\* rolls idle leaves the reward tiles, the reward map, the recorded nodes and
\* the alert map as they were.
C26_IdleOnlyDrains ==
    [][(call'.op = "simulation.step" /\ ~ret'.raised) =>
          /\ \A i \in 1..Len(turns') :
                 turns'[i].path = "idle" =>
                     /\ turns'[i].steps = <<>>
                     /\ ~Moved(turns'[i])
                     /\ Entry(alerts', turns'[i].identifier)
                            = Entry(alerts, turns'[i].identifier)
                     /\ Entry(node_states', turns'[i].identifier)
                            = Entry(node_states, turns'[i].identifier)
                     /\ models' = models
          /\ (\A i \in 1..Len(turns') : turns'[i].path = "idle") =>
                 /\ reward_tiles' = reward_tiles
                 /\ rewards' = rewards
                 /\ node_states' = node_states
                 /\ alerts' = alerts]_vars

(***************************************************************************)
(* Claims about the battery (SpecBattery)                                  *)
(***************************************************************************)
\* The agent of the identifier given, among the nodes given.
AgentNamed(nodes, identifier) ==
    nodes[CHOOSE n \in 1..Len(nodes) : nodes[n].identifier = identifier]

Built == call.op = "MeshSimulation" /\ ~ret.raised

\* The number of interior cells of the grid the arguments ask for.
interior_count(args) == (args.width - 2) * (args.height - 2)

\* No two of the nodes given are on one cell.
ApartOnGrid(nodes) ==
    \A i, j \in 1..Len(nodes) :
        i # j => Coordinate(nodes[i].location) # Coordinate(nodes[j].location)

\* C28: a successfully constructed simulation has the agents of both groups
\* on pairwise distinct cells strictly inside the border, with pairwise
\* distinct non-empty identifiers, and its reward tiles on pairwise distinct
\* interior cells.
C28_ConstructedApart ==
    Built =>
        /\ Len(cats) = call.args.cat_count
        /\ Len(dogs) = call.args.dog_count
        /\ ApartOnGrid(cats \o dogs)
        /\ \A i \in 1..Len(cats \o dogs) :
               /\ is_interior((cats \o dogs)[i].location)
               /\ (cats \o dogs)[i].identifier # ""
               /\ \A j \in 1..Len(cats \o dogs) :
                      i # j => (cats \o dogs)[i].identifier # (cats \o dogs)[j].identifier
        /\ ApartOnGrid(reward_tiles)
        /\ \A i \in 1..Len(reward_tiles) : is_interior(reward_tiles[i].location)

\* Three cats and a dog fill the four interior cells of a 4x4 grid, and two
\* cats and a dog share the grid with three tiles.
C28_Witness ==
    /\ Built
    /\ \/ Len(cats) + Len(dogs) = interior_count(call.args)
       \/ Len(dogs) = 1 /\ Len(cats) = 2 /\ Len(reward_tiles) = 3
    /\ Len(dogs) > 0
    /\ Len(cats) > 0

\* The arguments ask for more agents, or more reward tiles, than the grid
\* has interior cells.
Overfull(args) ==
    \/ args.cat_count + args.dog_count > interior_count(args)
    \/ Len(args.reward_tiles) + args.positive_reward_count
         + args.negative_reward_count > interior_count(args)

\* C29: a construction asking for more agents, or more reward tiles, than
\* there are free interior cells ends in an error to the caller and leaves
\* no simulation behind; the probing for a cell is bounded, and returns a
\* free interior cell or raises RuntimeError when there is none; no
\* simulation returned has two agents on one cell, or an agent or tile on
\* the border.
C29_ExhaustionRaises ==
    /\ (call.op = "MeshSimulation" /\ Overfull(call.args)) =>
           /\ ret.raised
           /\ ret.error = (IF ArgumentsRejected(call.args) THEN "ValueError"
                           ELSE "RuntimeError")
           /\ cats = <<>> /\ dogs = <<>> /\ reward_tiles = <<>>
    /\ (call.op = "MeshSimulation" /\ ~ArgumentsRejected(call.args)) =>
           \A taken \in SUBSET {Coordinate(c) : c \in interior_locations} :
               probe_location(taken, 0) =
                   (IF random_location(taken) = {}
                    THEN {[raised |-> TRUE, error |-> "RuntimeError"]}
                    ELSE {[raised |-> FALSE, location |-> c] : c \in random_location(taken)})
    /\ Built =>
           /\ ApartOnGrid(cats \o dogs)
           /\ \A i \in 1..Len(cats \o dogs) : ~is_border((cats \o dogs)[i].location)
           /\ \A i \in 1..Len(reward_tiles) : ~is_border(reward_tiles[i].location)

\* Five agents, and five tiles, asked of a grid with four interior cells have
\* raised RuntimeError past the argument checks.
C29_Witness ==
    /\ call.op = "MeshSimulation"
    /\ Overfull(call.args)
    /\ ~ArgumentsRejected(call.args)
    /\ ret.raised
    /\ ret.error = "RuntimeError"


(***************************************************************************)
(* Claims about QLearningAgent.learn (SpecLearn)                           *)
(***************************************************************************)
\* The greatest Q-value of next_state over the actions given, 0 for none.
MaxOver(model, next_state, next_available_actions) ==
    LET actions == IF next_available_actions.given
                   THEN next_available_actions.actions ELSE <<>>
    IN  IF actions = <<>> THEN 0
        ELSE LET best == CHOOSE i \in 1..Len(actions) :
                            \A j \in 1..Len(actions) :
                                get_q_value(model, next_state, actions[j])
                                  <= get_q_value(model, next_state, actions[i])
             IN  get_q_value(model, next_state, actions[best])

\* C30: learn(s, a, r, s', A') sets Q(s, a) to
\* Q(s, a) + alpha * (r + gamma * max over A' of Q(s', a') - Q(s, a)), the max
\* being 0 when A' is empty or omitted, and changes no other entry of the
\* table (nor the rates); on a fresh agent with alpha = gamma = 0.5,
\* learn(10, DO_WORK, 5, 20, []) leaves Q(10, DO_WORK) = 2.5 and
\* policy(10) = DO_WORK.
C30_LearnUpdate ==
    [][call'.op = "QLearningAgent.learn" =>
          LET a == call'.args
              old == get_q_value(agent, a.state, a.action)
              new == get_q_value(agent', a.state, a.action)
              best == MaxOver(agent, a.next_state, a.next_available_actions)
          IN  /\ new * RateUnit * RateUnit
                   = old * RateUnit * RateUnit
                     + agent.learning_rate
                       * (a.reward * QUnit * RateUnit
                          + agent.discount_factor * best - old * RateUnit)
              /\ \A s \in LearnStates, b \in Action :
                     <<s, b>> # <<a.state, a.action>> =>
                         get_q_value(agent', s, b) = get_q_value(agent, s, b)
              /\ DOMAIN agent'.q_table = DOMAIN agent.q_table \cup {a.state}
              /\ \A s \in DOMAIN agent.q_table :
                     s # a.state => agent'.q_table[s] = agent.q_table[s]
              /\ {e[1] : e \in {agent'.q_table[a.state][i] :
                                    i \in 1..Len(agent'.q_table[a.state])}}
                   = {a.action} \cup
                     (IF a.state \in DOMAIN agent.q_table
                      THEN {agent.q_table[a.state][i][1] :
                               i \in 1..Len(agent.q_table[a.state])}
                      ELSE {})
              /\ agent'.learning_rate = agent.learning_rate
              /\ agent'.discount_factor = agent.discount_factor
              /\ ( /\ agent.q_table = EmptyDict
                   /\ 2 * agent.learning_rate = RateUnit
                   /\ 2 * agent.discount_factor = RateUnit
                   /\ a = [state |-> 10, action |-> DO_WORK, reward |-> 5,
                           next_state |-> 20,
                           next_available_actions |->
                               [given |-> TRUE, actions |-> <<>>]] )
                  => /\ 2 * new = 5 * QUnit
                     /\ policy(agent', 10) = DO_WORK]_vars

\* The second learn of a run found values in the table for the next state,
\* took the greater of the two given actions' and changed a value it had set
\* before.
C30_Witness ==
    /\ call.op = "QLearningAgent.learn"
    /\ call.nth = 2
    /\ call.args.next_available_actions.given
    /\ call.args.next_available_actions.actions # <<>>
    /\ call.args.state = call.args.next_state
    /\ Len(agent.q_table[call.args.state]) = 1
    /\ get_q_value(agent, call.args.state, call.args.action) # 0
    /\ 2 * agent.learning_rate = RateUnit
    /\ 2 * agent.discount_factor = RateUnit


(***************************************************************************)
(* Claims about reproducibility (SpecRun)                                  *)
(***************************************************************************)
\* What the generator drew in the turns of a step's result: per turn, whether
\* random() fell below the idle chance, the movement shuffle() put first
\* among the free ones, and the level uniform()'s drain left the battery at.
DrawsOf(o) ==
    [i \in 1..Len(o.turns) |->
        [idle |-> o.turns[i].path = "idle",
         shuffled |-> IF o.turns[i].path = "fallback_move" THEN o.turns[i].steps
                      ELSE <<>>,
         drained |-> AgentNamed(o.cats \o o.dogs, o.turns[i].identifier).battery_level]]

\* A result of step, as Sim_step returns it.
StepResult(raised, cat_nodes, dog_nodes, ns, rw, tiles, alert_map, ts) ==
    [raised |-> raised, cats |-> cat_nodes, dogs |-> dog_nodes,
     st |-> [node_states |-> ns, rewards |-> rw, reward_tiles |-> tiles,
             alerts |-> alert_map],
     turns |-> ts]

ChoseGreedily ==
    /\ call.op = "QLearningAgent.choose_action"
    /\ call.args.exploration_rate = 0
    /\ call.args.available_actions # <<>>

\* C31: with exploration rate 0 choose_action returns the candidate of the
\* greatest Q-value for the state, a pair never learned counting as 0, and
\* of candidates of equal value the one that comes first in the list; an
\* empty candidate list is refused with an error.
C31_GreedyChoice ==
    /\ ChoseGreedily =>
          /\ ~ret.raised
          /\ \E i \in 1..Len(call.args.available_actions) :
                /\ ret.value = call.args.available_actions[i]
                /\ \A j \in 1..Len(call.args.available_actions) :
                       get_q_value(agent, call.args.state, call.args.available_actions[j])
                         <= get_q_value(agent, call.args.state, ret.value)
                /\ \A j \in 1..(i - 1) :
                       get_q_value(agent, call.args.state, call.args.available_actions[j])
                         < get_q_value(agent, call.args.state, ret.value)
    /\ (call.op = "QLearningAgent.choose_action" /\ call.args.available_actions = <<>>) =>
          ret.raised /\ ret.error = "ValueError"

\* A candidate never taught, valued 0, was chosen over a taught one of
\* negative value that comes before it in the list.
C31_Witness ==
    /\ ChoseGreedily
    /\ ~ret.raised
    /\ call.args.available_actions = <<MOVE_RIGHT, DO_WORK>>
    /\ get_q_value(agent, call.args.state, MOVE_RIGHT) < 0
    /\ call.args.state \in DOMAIN agent.q_table
    /\ Len(agent.q_table[call.args.state]) = 1
    /\ ret.value = DO_WORK


\* The values recorded for the state in the agent's table.
RecordedValues(model, state) ==
    IF state \in DOMAIN model.q_table
    THEN {model.q_table[state][i][2] : i \in 1..Len(model.q_table[state])}
    ELSE {}

\* C32: policy(state) is none exactly for the states learn has never been
\* called on (a fresh agent has none for any state, a learn gives its state a
\* policy and no other state one, and no other call changes it), and is
\* otherwise an action whose recorded value is the greatest recorded for the
\* state; get_q_value is 0 for every pair learn has never updated.
C32_PolicyOfLearnedStates ==
    /\ \A s \in LearnStates :
          /\ policy(agent, s) = NoPolicy
          /\ \A b \in Action : get_q_value(agent, s, b) = 0
    /\ [][/\ call'.op # "QLearningAgent.learn" => agent' = agent
          /\ call'.op = "QLearningAgent.learn" => \A s \in LearnStates :
               /\ (policy(agent', s) = NoPolicy) <=>
                      /\ policy(agent, s) = NoPolicy
                      /\ call'.args.state # s
               /\ policy(agent', s) # NoPolicy =>
                      /\ get_q_value(agent', s, policy(agent', s))
                            \in RecordedValues(agent', s)
                      /\ \A v \in RecordedValues(agent', s) :
                             v <= get_q_value(agent', s, policy(agent', s))
               /\ \A b \in Action :
                      ~(call'.args.state = s /\ call'.args.action = b)
                      => get_q_value(agent', s, b) = get_q_value(agent, s, b)]_vars

\* Two learns on one state have recorded a second action above the first,
\* which is now the policy; the other state, read as next_state only, has
\* none.
C32_Witness ==
    /\ call.op = "QLearningAgent.learn"
    /\ call.nth = 2
    /\ Len(agent.q_table[call.args.state]) = 2
    /\ agent.q_table[call.args.state][1][2] < agent.q_table[call.args.state][2][2]
    /\ policy(agent, call.args.state) = call.args.action
    /\ call.args.next_state # call.args.state
    /\ call.args.next_available_actions.given
    /\ call.args.next_available_actions.actions # <<>>
    /\ policy(agent, call.args.next_state) = NoPolicy


(***************************************************************************)
(* Claims about BackgroundTaskManager (SpecTasks)                          *)
(***************************************************************************)
\* The statuses a task can move to from the status given.
StatusMoves(status) ==
    IF status = "pending" THEN {"processing"}
    ELSE IF status = "processing" THEN {"completed", "failed"}
    ELSE {}

\* C33: wait_for_completion returns only once the task is in a terminal
\* status, however the task's coroutine and the waiter interleave: the
\* snapshot returned reports "completed" with the service's result when
\* generate returned and "failed" with the exception's message when it
\* raised; a status moves only from pending to processing and from
\* processing to completed or failed, and a terminal status stays.
C33_WaitReturnsTerminal ==
    /\ [](\A task_id \in DOMAIN manager.waiters :
            manager.waiters[task_id].pc = "returned" =>
                LET value == manager.waiters[task_id].value
                    runner == manager.runners[task_id]
                IN  /\ runner.pc = "done"
                    /\ value = task_snapshot(manager.tasks[task_id])
                    /\ ~runner.outcome.raised =>
                           /\ value.status = "completed"
                           /\ value.result = <<runner.outcome.value>>
                           /\ value.error = <<>>
                    /\ runner.outcome.raised =>
                           /\ value.status = "failed"
                           /\ value.error = <<runner.outcome.value>>
                           /\ value.result = <<>>)
    /\ [][\A task_id \in DOMAIN manager.tasks :
             /\ task_id \in DOMAIN manager'.tasks
             /\ manager'.tasks[task_id].status # manager.tasks[task_id].status =>
                    manager'.tasks[task_id].status
                        \in StatusMoves(manager.tasks[task_id].status)]_vars

\* Both waiters have returned, one with a failure and one with a completion.
C33_Witness ==
    /\ DOMAIN manager.waiters = TaskIds
    /\ \A task_id \in TaskIds : manager.waiters[task_id].pc = "returned"
    /\ \E failed, completed \in TaskIds :
          /\ manager.waiters[failed].value.status = "failed"
          /\ manager.waiters[completed].value.status = "completed"


(***************************************************************************)
(* Claims about the environment's node table and calls (SpecRun)           *)
(***************************************************************************)
\* C34: the environment's table of last-known nodes mirrors the simulation.
\* After every call, for every identifier the table holds, the location
\* recorded is the location of that agent in the simulation's lists; and in
\* a step every turn that calls the environment finds recorded, if
\* anything, the cell the simulation held for the agent, and leaves
\* recorded the cell the agent ends the turn on.
C34_NodeTableMirrors ==
    [][/\ \A identifier \in DOMAIN node_states' :
             /\ \E n \in 1..Len(cats' \o dogs') :
                    (cats' \o dogs')[n].identifier = identifier
             /\ node_states'[identifier].location
                  = AgentNamed(cats' \o dogs', identifier).location
       /\ (call'.op = "simulation.step" /\ ~ret'.raised) =>
             \A i \in 1..Len(turns') :
                 turns'[i].steps # <<>> =>
                     /\ turns'[i].identifier \in DOMAIN node_states =>
                            node_states[turns'[i].identifier].location = turns'[i].from
                     /\ turns'[i].identifier \in DOMAIN node_states'
                     /\ node_states'[turns'[i].identifier].location = turns'[i].to]_vars

\* After a step in which one agent moved and the other, recorded by the
\* environment in an earlier tick, rolled idle.
C34_Witness ==
    /\ AfterTick
    /\ tick >= 2
    /\ \E i, j \in 1..Len(turns) :
          /\ Moved(turns[i])
          /\ turns[j].path = "idle"
          /\ turns[j].identifier \in DOMAIN node_states
          /\ turns[i].identifier \in DOMAIN node_states
    /\ DOMAIN node_states = {"cat-1", "dog-1"}


(***************************************************************************)
(* C35: environment steps per agent per tick.                              *)
(***************************************************************************)
\* The paths of a turn that commit an action.
CommittingPaths ==
    {"ranked", "fallback_move", "fallback_work", "harvest", "no_viable"}

\* C35: in a tick every agent has at most one turn and a turn issues at most
\* one environment step: an idle turn issues none, a committing turn exactly
\* one, the action stepped is never a movement into a cell of the turn's
\* occupied set, and a turn without a step leaves the agent where it was.
C35_OneStepPerTurn ==
    [][(call'.op = "simulation.step" /\ ~ret'.raised) =>
          /\ \A i, j \in 1..Len(turns') :
                 turns'[i].identifier = turns'[j].identifier => i = j
          /\ \A i \in 1..Len(turns') :
                 /\ Len(turns'[i].steps) <= 1
                 /\ turns'[i].path = "idle" => turns'[i].steps = <<>>
                 /\ turns'[i].path \in CommittingPaths => Len(turns'[i].steps) = 1
                 /\ \A k \in 1..Len(turns'[i].steps) :
                        ~Blocked([location |-> turns'[i].from], turns'[i].steps[k],
                                 turns'[i].occupied)
                 /\ turns'[i].steps = <<>> => turns'[i].to = turns'[i].from]_vars

\* A turn whose first ranked action led into an occupied cell stepped once,
\* with a later action of the ranking, and an idle turn of the same tick
\* stepped not at all.
C35_Witness ==
    /\ AfterTick
    /\ \E i \in 1..Len(turns) :
           /\ turns[i].path = "ranked"
           /\ Blocked([location |-> turns[i].from], Head(turns[i].ranked),
                      turns[i].occupied)
           /\ Len(turns[i].steps) = 1
           /\ turns[i].steps[1] # Head(turns[i].ranked)
    /\ \E i \in 1..Len(turns) : turns[i].path = "idle" /\ turns[i].steps = <<>>


(***************************************************************************)
(* C36: a blocked preferred action falls through the one ranking.          *)
(***************************************************************************)
\* The turn ranked the actions of a registered model and the action ranked
\* first is a movement into an occupied cell.
PreferredBlocked(turn) ==
    /\ turn.ranked # <<>>
    /\ ~turn.requested
    /\ Blocked([location |-> turn.from], Head(turn.ranked), turn.occupied)

\* The first action of the ranking that is no movement into an occupied cell.
FirstViable(turn) ==
    turn.ranked[CHOOSE k \in 1..Len(turn.ranked) :
                    /\ ~Blocked([location |-> turn.from], turn.ranked[k], turn.occupied)
                    /\ \A j \in 1..(k - 1) :
                           Blocked([location |-> turn.from], turn.ranked[j],
                                   turn.occupied)]

\* C36: a turn that ranks the actions of the agent's model holds the one
\* ranking _rank_actions gives for the agent's cell; when the action ranked
\* first is a movement into an occupied cell, the ranking holds an action
\* that is not, the turn steps the first such action of that ranking and no
\* other, and when every legal movement is blocked that action is not a
\* movement and the agent stays on its cell.
C36_FallsThroughRanking ==
    [][(call'.op = "simulation.step" /\ ~ret'.raised) =>
          \A i \in 1..Len(turns') :
              PreferredBlocked(turns'[i]) =>
                  /\ turns'[i].ranked =
                         rank_actions([identifier |-> turns'[i].identifier,
                                       location |-> turns'[i].from],
                                      available_actions(surroundings_for(turns'[i].from)),
                                      turns'[i].agent_type # "cat").ranked
                  /\ \E k \in 1..Len(turns'[i].ranked) :
                         ~Blocked([location |-> turns'[i].from], turns'[i].ranked[k],
                                  turns'[i].occupied)
                  /\ turns'[i].path = "ranked"
                  /\ turns'[i].steps = <<FirstViable(turns'[i])>>
                  /\ (\A k \in 1..Len(turns'[i].ranked) :
                          turns'[i].ranked[k] \in DOMAIN ACTION_TO_VECTOR =>
                              Blocked([location |-> turns'[i].from],
                                      turns'[i].ranked[k], turns'[i].occupied))
                         => /\ FirstViable(turns'[i]) \notin DOMAIN ACTION_TO_VECTOR
                            /\ turns'[i].to = turns'[i].from]_vars

\* The cat's model prefers MOVE_RIGHT; both cells next to the cat hold a
\* dog, and the cat stepped the first action of its ranking that is not a
\* movement, the third or a later one, and stayed.
C36_Witness ==
    /\ AfterTick
    /\ \E i \in 1..Len(turns) :
           /\ turns[i].identifier = "cat-1"
           /\ PreferredBlocked(turns[i])
           /\ Head(turns[i].ranked) = MOVE_RIGHT
           /\ Len(turns[i].ranked) >= 3
           /\ Blocked([location |-> turns[i].from], turns[i].ranked[2],
                      turns[i].occupied)
           /\ turns[i].steps = <<FirstViable(turns[i])>>
           /\ turns[i].steps[1] \notin DOMAIN ACTION_TO_VECTOR
           /\ turns[i].to = turns[i].from


(***************************************************************************)
(* C37: the reward tiles and the environment's reward map.                 *)
(***************************************************************************)
\* The rewards of the snapshot the simulation would return now.
SnapshotRewards ==
    snapshot([cats |-> cats, dogs |-> dogs, reward_tiles |-> reward_tiles,
              alerts |-> alerts, tick |-> tick, node_states |-> node_states,
              rewards |-> rewards]).value.rewards

\* C37: after construction and after every add_reward_tile and step call the
\* snapshot holds at most one tile for a location, and for every interior
\* location the environment's reward_at is the value of the snapshot's tile
\* there, and 0 when the snapshot has none.
C37_TilesMirrorRewardMap ==
    /\ \A i, j \in 1..Len(SnapshotRewards) :
           SnapshotRewards[i].location = SnapshotRewards[j].location => i = j
    /\ \A location \in interior_locations :
           /\ \A i \in 1..Len(SnapshotRewards) :
                  SnapshotRewards[i].location = location =>
                      reward_at(rewards, location) = SnapshotRewards[i].value
           /\ (\A i \in 1..Len(SnapshotRewards) :
                   SnapshotRewards[i].location # location)
                  => reward_at(rewards, location) = 0

\* A cat has just harvested a cell whose entry of the reward map is now a
\* stored 0 with no tile left, while a tile put by add_reward_tile is still
\* there with its value.
C37_Witness ==
    /\ AfterTick
    /\ \E i \in 1..Len(turns) :
           /\ turns[i].path = "harvest"
           /\ Coordinate(turns[i].from) \in DOMAIN rewards
           /\ rewards[Coordinate(turns[i].from)] = 0
           /\ \A k \in 1..Len(reward_tiles) : reward_tiles[k].location # turns[i].from
    /\ \E k \in 1..Len(reward_tiles) :
           /\ reward_tiles[k].location = GridLocation(2, 2)
           /\ reward_tiles[k].value = -2
           /\ reward_at(rewards, GridLocation(2, 2)) = -2


(***************************************************************************)
(* C38: what step() does to the reward tiles.                              *)
(***************************************************************************)
\* C38: a step leaves of the reward tiles, in their order and unchanged,
\* exactly those on no cell a turn of the tick harvested; a harvesting turn
\* is the turn of a cat that did not roll idle on a cell whose reward was
\* positive; so tiles of value zero or below stay, a DO_WORK stepped by a
\* dog, by the cat's fallback or from a ranking removes nothing, and the
\* number of tiles does not grow.
C38_OnlyHarvestRemovesTiles ==
    [][(call'.op = "simulation.step" /\ ~ret'.raised) =>
          LET harvested == { turns'[i].from :
                                i \in {n \in 1..Len(turns') : turns'[n].path = "harvest"} }
          IN  /\ reward_tiles' =
                     SelectSeq(reward_tiles, LAMBDA tile : tile.location \notin harvested)
              /\ \A i \in 1..Len(turns') :
                     turns'[i].path = "harvest" =>
                         /\ turns'[i].agent_type = "cat"
                         /\ turns'[i].steps = <<DO_WORK>>
                         /\ reward_at(rewards, turns'[i].from) > 0
              /\ \A k \in 1..Len(reward_tiles) :
                     reward_tiles[k].value <= 0 =>
                         \E n \in 1..Len(reward_tiles') : reward_tiles'[n] = reward_tiles[k]
              /\ Len(reward_tiles') <= Len(reward_tiles)]_vars

\* The dog, whose model's policy is DO_WORK, worked on the positive tile at
\* (1, 1) for its reward, and the tile and the negative tile are still there.
C38_Witness ==
    /\ AfterTick
    /\ \E i \in 1..Len(turns) :
           /\ turns[i].agent_type = "dog"
           /\ turns[i].path = "ranked"
           /\ turns[i].steps = <<DO_WORK>>
           /\ turns[i].from = GridLocation(1, 1)
           /\ turns[i].reward = 4
    /\ \E k \in 1..Len(reward_tiles) :
           reward_tiles[k].location = GridLocation(1, 1) /\ reward_tiles[k].value = 4
    /\ \E k \in 1..Len(reward_tiles) :
           reward_tiles[k].location = GridLocation(2, 2) /\ reward_tiles[k].value = -2


(***************************************************************************)
(* C39: no alert under the environment's own surroundings_for.             *)
(***************************************************************************)
\* The paths of a turn that found no action it could take.
StuckPaths == {"no_viable", "no_actions", "fallback_hold"}

\* C39: with the environment's own surroundings_for, after construction and
\* after every step, set_models and add_reward_tile call the alert map is
\* empty; DO_WORK, STOP and CALL_FOR_HELP are legal at every interior cell,
\* every ranking a turn walked holds an action that is not a movement, and
\* no turn found itself without an action to take.
C39_NoAlertEver ==
    patched = <<>> =>
        /\ alerts = EmptyDict
        /\ \A location \in interior_locations :
               \A a \in {DO_WORK, STOP, CALL_FOR_HELP} :
                   InList(a, available_actions(surroundings_for(location)))
        /\ \A i \in 1..Len(turns) :
               /\ turns[i].path \notin StuckPaths
               /\ turns[i].ranked # <<>> =>
                      \E k \in 1..Len(turns[i].ranked) :
                          turns[i].ranked[k] \notin DOMAIN ACTION_TO_VECTOR

\* In the last tick the dog, with no model registered, passed its idle roll,
\* was handed the ranking [STOP] and stepped STOP; no alert was raised.
C39_Witness ==
    /\ AfterTick
    /\ patched = <<>>
    /\ tick = MaxTick
    /\ alerts = EmptyDict
    /\ \E i \in 1..Len(turns) :
           /\ turns[i].agent_type = "dog"
           /\ turns[i].identifier \notin DOMAIN models
           /\ turns[i].ranked = <<STOP>>
           /\ turns[i].requested
           /\ turns[i].steps = <<STOP>>
           /\ turns[i].to = turns[i].from


(***************************************************************************)
(* C40: what a failed step leaves behind.                                  *)
(***************************************************************************)
\* C40 as claimed: a step that fails with an error, for an unknown action
\* integer, a non-integer action or a node resolved on the border or outside
\* the grid, leaves the table of recorded nodes and the reward map exactly
\* as they were before the call.
C40_FailedStepChangesNothing ==
    [][(call'.op = "step" /\ ret'.raised) =>
          /\ node_states' = node_states
          /\ rewards' = rewards]_vars

=============================================================================
